---- MODULE Spec2Model ----
(***************************************************************************)
(* The cleanup engine of turl-release (cleanup.js): removeConsoleLogs,      *)
(* extractCssClasses, isClassUsedInJsFiles, removeUnusedCssClasses and run. *)
(*                                                                         *)
(* Text is a sequence of tokens; each token is the piece of text that it    *)
(* spells ("console." followed by "log" is the text console.log), so every  *)
(* sequence is a concrete string and the regular expressions of the source  *)
(* are matched on it token by token.                                        *)
(***************************************************************************)
EXTENDS Integers, Sequences, FiniteSets, TLC

VARIABLES
    stripIn,      \* removeConsoleLogs: the text first handed to it
    stripPrev,    \* the text handed to the latest application
    stripOut,     \* the text after stripPasses applications
    stripPasses   \* how many times removeConsoleLogs has been applied

VARIABLES
    disk,         \* the file system: path -> text of the file
    mode,         \* path -> what reading and writing the file does (FileModes)
    reads,        \* path -> number of readFileSync calls made on it
    jsFiles       \* the list of source files handed to the remover

VARIABLES
    cssContent,       \* removeUnusedCssClasses: the stylesheet text handed to it
    lines,            \* cssContent.split("\n")
    lineNo,           \* the line the loop reads next (0: not called)
    inRuleBlock,
    braceCount,
    skipCurrentRule,
    result,           \* the lines pushed so far
    fileCache,        \* path -> text, the Map shared by the lookups of one call
    cssOut,           \* the text returned, <<"pending">> until the call returns
    trace             \* per line read: the state it was read in, whether it was pushed

VARIABLES
    projectRoot,  \* run: what its argument is (RootKinds)
    srcExists,    \* fs.existsSync(srcDir)
    noAccess,     \* the directories readdirSync fails on
    pc,           \* where run is
    stats,        \* the statistics object
    cssFiles,     \* cssResult.files
    fileIdx,      \* the position of the running for-loop in its list
    writes,       \* path -> number of writeFileSync calls made on it
    listed,       \* the directories handed to readdirSync, in order
    orig,         \* the file system when run was called
    contrib,      \* path -> what processing the file added to the counters
    PACKAGE_SRC   \* __dirname: the directory the engine's own source is in

VARIABLES
    verIn,        \* incrementVersion: the version handed to it
    verOut,       \* what it returned
    args,         \* index.js: process.argv.slice(2)
    cliOptions,   \* main: what parseArgs returned
    turlJson,     \* the content of public/turl.json
    turlConfig,   \* main: what readTurlConfig returned
    newVersion,   \* main: incrementVersion(currentVersion)
    tree,         \* what git status and git diff report at the change check
    rpc,          \* where main is
    exitCode,     \* the code the process exited with
    effects,      \* what main has done outside the process, in order
    turlOrig      \* public/turl.json when main was started

stripVars == <<stripIn, stripPrev, stripOut, stripPasses>>
fsVars == <<disk, mode, reads, jsFiles>>
runVars == <<projectRoot, srcExists, noAccess, pc, stats, cssFiles, fileIdx, writes,
             listed, orig, contrib, PACKAGE_SRC>>
cssVars == <<cssContent, lines, lineNo, inRuleBlock, braceCount, skipCurrentRule, result,
             fileCache, cssOut, trace>>

verVars == <<verIn, verOut>>
relVars == <<args, cliOptions, turlJson, turlConfig, newVersion, tree, rpc, exitCode,
             effects, turlOrig>>
vars == <<stripVars, fsVars, cssVars, runVars, verVars, relVars>>

----------------------------------------------------------------------------
(* Sequences *)

\* All sequences over S of length 0..n.
BoundedSeq(S, n) == UNION {[1..k -> S] : k \in 0..n}

\* s[from..to], empty when from > to.
Slice(s, from, to) == [k \in 1..(IF to >= from THEN to - from + 1 ELSE 0) |-> s[from + k - 1]]

\* The tail of s from position i on.
From(s, i) == Slice(s, i, Len(s))

\* Number of positions of s that hold a member of S.
RECURSIVE CountIn(_, _)
\* The element of a set of one element. Binding a name to the element of {e}
\* has e computed once, however often the name is used.
Only(S) == CHOOSE x \in S : TRUE

CountIn(s, S) ==
    IF s = <<>> THEN 0
    ELSE (IF Head(s) \in S THEN 1 ELSE 0) + CountIn(Tail(s), S)

----------------------------------------------------------------------------
(* Character classes of the regular expressions *)

\* \s
Whitespace == {" ", "\n"}

\* [)(]
Parens == {"(", ")"}

\* The first position >= i of s that holds no whitespace (Len(s)+1 if none): \s* is greedy.
RECURSIVE SkipSpace(_, _)
SkipSpace(s, i) ==
    IF i <= Len(s) /\ s[i] \in Whitespace THEN SkipSpace(s, i + 1) ELSE i

----------------------------------------------------------------------------
(* removeConsoleLogs *)

\* The deepest parenthesis nesting the pattern accepts, the argument list's own
\* parentheses included: \( ... \( ... \( [^)(]* \) ... \) ... \)
MaxParenDepth == 3

\* console\.log at position i of s.
IsConsoleLogAt(s, i) ==
    /\ i + 1 <= Len(s)
    /\ s[i] = "console."
    /\ s[i + 1] = "log"

\* ScanArgs without the bound on the nesting: any balanced argument list matches.
RECURSIVE ScanArgs_NoDepthBound(_, _, _)
ScanArgs_NoDepthBound(s, i, depth) ==
    IF i > Len(s) THEN 0
    ELSE IF s[i] = "(" THEN ScanArgs_NoDepthBound(s, i + 1, depth + 1)
    ELSE IF s[i] = ")" THEN
        IF depth = 1 THEN i + 1 ELSE ScanArgs_NoDepthBound(s, i + 1, depth - 1)
    ELSE ScanArgs_NoDepthBound(s, i + 1, depth)

\* From inside the argument list (position i, `depth` parentheses open), the
\* position just after the parenthesis closing the list, or 0 when the pattern
\* cannot match: the text ends first, or a parenthesis opens at MaxParenDepth.
RECURSIVE ScanArgs(_, _, _)
ScanArgs(s, i, depth) ==
    IF i > Len(s) THEN 0
    ELSE IF s[i] = "(" THEN
        IF depth >= MaxParenDepth THEN 0 ELSE ScanArgs(s, i + 1, depth + 1)
    ELSE IF s[i] = ")" THEN
        IF depth = 1 THEN i + 1 ELSE ScanArgs(s, i + 1, depth - 1)
    ELSE ScanArgs(s, i + 1, depth)

\* \s*;?\s*\n? from position i: the position after it. The second \s* takes the
\* newlines too, so \n? is left nothing.
SkipTerminator(s, i) ==
    LET j == SkipSpace(s, i)
    IN  IF j <= Len(s) /\ s[j] = ";" THEN SkipSpace(s, j + 1) ELSE j

\* The whole pattern at position i: the position after the match, or 0.
ConsoleLogCallEnd(s, i) ==
    IF ~IsConsoleLogAt(s, i) THEN 0
    ELSE LET p == SkipSpace(s, i + 2)
         IN  IF p > Len(s) \/ s[p] # "(" THEN 0
             ELSE LET q == ScanArgs(s, p + 1, 1)
                  IN  IF q = 0 THEN 0 ELSE SkipTerminator(s, q)

\* res.replace(/console\.log.../g, ""): leftmost matches, not overlapping.
RECURSIVE RemoveCalls(_, _)
RemoveCalls(s, i) ==
    IF i > Len(s) THEN <<>>
    ELSE LET e == ConsoleLogCallEnd(s, i)
         IN  IF e # 0 THEN RemoveCalls(s, e)
             ELSE <<s[i]>> \o RemoveCalls(s, i + 1)

\* ^ under the m flag: the start of the text or just after a newline.
IsLineStart(s, i) == i = 1 \/ s[i - 1] = "\n"

\* The last newline of s within positions from..to-1, or 0.
RECURSIVE LastNewline(_, _, _)
LastNewline(s, from, to) ==
    IF to <= from THEN 0
    ELSE IF s[to - 1] = "\n" THEN to - 1
    ELSE LastNewline(s, from, to - 1)

\* res.replace(/^\s*\n/gm, "\n"): at a line start, the whitespace up to and
\* including the last newline of the whitespace run becomes one newline.
RECURSIVE CollapseBlankLines(_, _)
CollapseBlankLines(s, i) ==
    IF i > Len(s) THEN <<>>
    ELSE LET n == IF IsLineStart(s, i) THEN LastNewline(s, i, SkipSpace(s, i)) ELSE 0
         IN  IF n # 0 THEN <<"\n">> \o CollapseBlankLines(s, n + 1)
             ELSE <<s[i]>> \o CollapseBlankLines(s, i + 1)

\* The first position >= i of s that holds no newline.
RECURSIVE SkipNewlines(_, _)
SkipNewlines(s, i) ==
    IF i <= Len(s) /\ s[i] = "\n" THEN SkipNewlines(s, i + 1) ELSE i

\* res.replace(/\n{3,}/g, "\n\n")
RECURSIVE CollapseNewlineRuns(_, _)
CollapseNewlineRuns(s, i) ==
    IF i > Len(s) THEN <<>>
    ELSE LET e == SkipNewlines(s, i)
         IN  IF e - i >= 3 THEN <<"\n", "\n">> \o CollapseNewlineRuns(s, e)
             ELSE <<s[i]>> \o CollapseNewlineRuns(s, i + 1)

removeConsoleLogs(content) ==
    CollapseNewlineRuns(CollapseBlankLines(RemoveCalls(content, 1), 1), 1)

\* (content.match(/console\.log/g) || []).length
CountConsoleLog(s) == Cardinality({i \in 1..Len(s) : IsConsoleLogAt(s, i)})

----------------------------------------------------------------------------
(* Tokens of stylesheets and source files *)

\* Tokens spelled with word characters only (\w), the first one a letter.
WordTokens == {"a", "b", "x", "log", "className", "styles", "classList", "add"}

\* Whether the token's first / last character is a word character (for \b).
FirstIsWord(t) == t \in WordTokens \/ t = "console."
LastIsWord(t) == t \in WordTokens

\* The quote class Q: single quote, double quote, back quote (the token BACKQUOTE
\* spells the back quote character).
Quotes == {"'", "\"", "BACKQUOTE"}

\* css.split("\n"): the text between the newlines, one entry more than
\* there are newlines.
RECURSIVE SplitLines(_)
SplitLines(s) ==
    LET nl == {i \in 1..Len(s) : s[i] = "\n"}
    IN  IF nl = {} THEN <<s>>
        ELSE LET i == CHOOSE k \in nl : \A m \in nl : k <= m
             IN  <<Slice(s, 1, i - 1)>> \o SplitLines(From(s, i + 1))

\* res.join("\n")
RECURSIVE JoinLines(_)
JoinLines(ls) ==
    IF ls = <<>> THEN <<>>
    ELSE IF Len(ls) = 1 THEN ls[1]
    ELSE ls[1] \o <<"\n">> \o JoinLines(Tail(ls))

----------------------------------------------------------------------------
(* extractCssClasses *)

\* The first position >= i of s that holds no word token: [\w-]* is greedy.
RECURSIVE SkipWord(_, _)
SkipWord(s, i) ==
    IF i <= Len(s) /\ s[i] \in WordTokens THEN SkipWord(s, i + 1) ELSE i

\* \.([a-zA-Z_][\w-]*) at position i: a dot and the start of an identifier.
IsClassAt(s, i) ==
    /\ i + 1 <= Len(s)
    /\ s[i] = "."
    /\ s[i + 1] \in WordTokens

\* The identifier that starts at position i (match[1] when the dot is at i - 1).
ClassNameAt(s, i) == Slice(s, i, SkipWord(s, i) - 1)

\* The set of the class names of the text; a class name is the sequence of the
\* tokens that spell it.
extractCssClasses(css) ==
    {ClassNameAt(css, i + 1) : i \in {k \in 1..Len(css) : IsClassAt(css, k)}}

----------------------------------------------------------------------------
(* The file system *)

\* What reading and writing one file does: "ok", "noread" (readFileSync fails
\* with EACCES), "nowrite" (writeFileSync fails with EACCES).
FileModes == {"ok", "noread", "nowrite"}

\* safeReadFile on the file system: the content, or the CleanupError.
safeReadFile(dsk, md, filePath) ==
    IF md[filePath] = "noread"
    THEN [ok |-> FALSE, content |-> <<>>, code |-> "PERMISSION_DENIED"]
    ELSE [ok |-> TRUE, content |-> dsk[filePath], code |-> "NONE"]

\* safeWriteFile: the disk after it, and whether it threw. A write that fails
\* fails when the file is opened and leaves the content as it was.
safeWriteFile(dsk, md, filePath, content) ==
    IF md[filePath] = "nowrite"
    THEN [ok |-> FALSE, disk |-> dsk, code |-> "PERMISSION_DENIED"]
    ELSE [ok |-> TRUE, disk |-> [dsk EXCEPT ![filePath] = content], code |-> "NONE"]

----------------------------------------------------------------------------
(* isClassUsedInJsFiles *)

\* className at positions k .. k+Len-1 of s.
OccursAt(s, className, k) ==
    /\ k >= 1
    /\ k + Len(className) - 1 <= Len(s)
    /\ \A m \in 1..Len(className) : s[k + m - 1] = className[m]

\* \b before position k (which starts a word) and at position e (after a word).
WordBoundaryBefore(s, k) == k = 1 \/ ~LastIsWord(s[k - 1])
WordBoundaryAfter(s, e) == e > Len(s) \/ ~FirstIsWord(s[e])

\* QclassNameQ
PatternQuoted(s, className) ==
    \E k \in 1..Len(s) :
        /\ s[k] \in Quotes
        /\ OccursAt(s, className, k + 1)
        /\ k + 1 + Len(className) <= Len(s)
        /\ s[k + 1 + Len(className)] \in Quotes

\* Q[^Q]*\bclassName\b[^Q]*Q with the opening quote at position q:
\* the set of the positions of the closing quote.
QuotedWordEnds(s, className, q) ==
    {r \in (q + 1)..Len(s) :
        /\ s[r] \in Quotes
        /\ \A m \in (q + 1)..(r - 1) : s[m] \notin Quotes
        /\ \E k \in (q + 1)..(r - 1) :
              /\ OccursAt(s, className, k)
              /\ k + Len(className) <= r
              /\ WordBoundaryBefore(s, k)
              /\ WordBoundaryAfter(s, k + Len(className))}

\* className\s*=\s* at position c: the position after it, or 0.
ClassNameAttrEnd(s, c) ==
    IF s[c] # "className" THEN 0
    ELSE LET e == SkipSpace(s, c + 1)
         IN  IF e > Len(s) \/ s[e] # "=" THEN 0 ELSE SkipSpace(s, e + 1)

\* className\s*=\s*Q[^Q]*\bclassName\b[^Q]*Q
PatternAttrString(s, className) ==
    \E c \in 1..Len(s) :
        LET q == ClassNameAttrEnd(s, c)
        IN  /\ q # 0
            /\ q <= Len(s)
            /\ s[q] \in Quotes
            /\ QuotedWordEnds(s, className, q) # {}

\* className\s*=\s*\{[^}]*Q[^Q]*\bclassName\b[^Q]*Q[^}]*\}
PatternAttrExpr(s, className) ==
    \E c \in 1..Len(s) :
        LET b == ClassNameAttrEnd(s, c)
        IN  /\ b # 0
            /\ b <= Len(s)
            /\ s[b] = "{"
            /\ \E q \in (b + 1)..Len(s) :
                  /\ s[q] \in Quotes
                  /\ \A m \in (b + 1)..(q - 1) : s[m] # "}"
                  /\ \E r \in QuotedWordEnds(s, className, q) :
                        \E z \in (r + 1)..Len(s) :
                            /\ s[z] = "}"
                            /\ \A m \in (r + 1)..(z - 1) : s[m] # "}"

\* styles\.className\b
PatternStyles(s, className) ==
    \E c \in 1..Len(s) :
        /\ s[c] = "styles"
        /\ c + 1 <= Len(s)
        /\ s[c + 1] = "."
        /\ OccursAt(s, className, c + 2)
        /\ WordBoundaryAfter(s, c + 2 + Len(className))

\* \[QclassNameQ\]
PatternBracket(s, className) ==
    \E k \in 1..Len(s) :
        /\ s[k] = "["
        /\ k + 1 <= Len(s)
        /\ s[k + 1] \in Quotes
        /\ OccursAt(s, className, k + 2)
        /\ k + 3 + Len(className) <= Len(s)
        /\ s[k + 2 + Len(className)] \in Quotes
        /\ s[k + 3 + Len(className)] = "]"

\* (add|remove|toggle|contains); the token alphabet spells only add.
ClassListMethods == {"add"}

\* classList\.(add|remove|toggle|contains)\s*\(QclassNameQ\)
PatternClassList(s, className) ==
    \E c \in 1..Len(s) :
        /\ s[c] = "classList"
        /\ c + 2 <= Len(s)
        /\ s[c + 1] = "."
        /\ s[c + 2] \in ClassListMethods
        /\ LET p == SkipSpace(s, c + 3)
           IN  /\ p + 1 <= Len(s)
               /\ s[p] = "("
               /\ s[p + 1] \in Quotes
               /\ OccursAt(s, className, p + 2)
               /\ p + 3 + Len(className) <= Len(s)
               /\ s[p + 2 + Len(className)] \in Quotes
               /\ s[p + 3 + Len(className)] = ")"

\* for (const pattern of patterns) if (pattern.test(content)) return true
MatchesUsagePattern(content, className) ==
    \/ PatternQuoted(content, className)
    \/ PatternAttrString(content, className)
    \/ PatternAttrExpr(content, className)
    \/ PatternStyles(content, className)
    \/ PatternBracket(content, className)
    \/ PatternClassList(content, className)

\* IsClassUsedFrom giving up at the first file whose read fails.
RECURSIVE IsClassUsedFrom_StopAtFailedRead(_, _, _, _, _, _, _)
IsClassUsedFrom_StopAtFailedRead(dsk, md, className, files, i, cache, rd) ==
    IF i > Len(files) THEN [used |-> FALSE, fileCache |-> cache, reads |-> rd]
    ELSE LET jsFile == files[i]
             cached == jsFile \in DOMAIN cache
             got    == safeReadFile(dsk, md, jsFile)
             reads2 == IF cached THEN rd ELSE [rd EXCEPT ![jsFile] = @ + 1]
             cache2 == IF cached \/ ~got.ok THEN cache
                       ELSE cache @@ (jsFile :> got.content)
         IN  IF ~cached /\ ~got.ok
             THEN [used |-> FALSE, fileCache |-> cache2, reads |-> reads2]
             ELSE IF MatchesUsagePattern(cache2[jsFile], className)
             THEN [used |-> TRUE, fileCache |-> cache2, reads |-> reads2]
             ELSE IsClassUsedFrom_StopAtFailedRead(dsk, md, className, files, i + 1,
                                                   cache2, reads2)

\* The loop over files from index i on. cache is a function from the cached
\* paths to their text; rd counts the readFileSync calls per path so far.
RECURSIVE IsClassUsedFrom(_, _, _, _, _, _, _)
IsClassUsedFrom(dsk, md, className, files, i, cache, rd) ==
    IF i > Len(files) THEN [used |-> FALSE, fileCache |-> cache, reads |-> rd]
    ELSE LET jsFile == files[i]
             cached == jsFile \in DOMAIN cache
             got    == safeReadFile(dsk, md, jsFile)
             reads2 == IF cached THEN rd ELSE [rd EXCEPT ![jsFile] = @ + 1]
             cache2 == IF cached \/ ~got.ok THEN cache
                       ELSE cache @@ (jsFile :> got.content)
         IN  IF ~cached /\ ~got.ok
             THEN IsClassUsedFrom(dsk, md, className, files, i + 1, cache2, reads2)
             ELSE IF MatchesUsagePattern(cache2[jsFile], className)
             THEN [used |-> TRUE, fileCache |-> cache2, reads |-> reads2]
             ELSE IsClassUsedFrom(dsk, md, className, files, i + 1, cache2, reads2)

isClassUsedInJsFiles(dsk, md, className, files, cache, rd) ==
    IsClassUsedFrom(dsk, md, className, files, 1, cache, rd)

----------------------------------------------------------------------------
(* removeUnusedCssClasses *)

\* The first position >= i of s that holds an opening brace (Len(s)+1 if none):
\* [^{]* is greedy.
RECURSIVE SkipToOpenBrace(_, _)
SkipToOpenBrace(s, i) ==
    IF i <= Len(s) /\ s[i] # "{" THEN SkipToOpenBrace(s, i + 1) ELSE i

\* line.match(/^(\s*)(\.([a-zA-Z_][\w-]*)[^{]*)\{?\s*$/): leading whitespace, a
\* dot and an identifier, anything but an opening brace, at most one opening
\* brace, whitespace to the end of the line.
SelectorMatch(line) ==
    LET d == SkipSpace(line, 1)
    IN  /\ IsClassAt(line, d)
        /\ LET b == SkipToOpenBrace(line, SkipWord(line, d + 1))
               a == IF b <= Len(line) THEN b + 1 ELSE b
           IN  SkipSpace(line, a) = Len(line) + 1

\* selectorMatch[3]
SelectorClassName(line) == ClassNameAt(line, SkipSpace(line, 1) + 1)

\* line.includes("{"), line.includes("}")
HasOpenBrace(line) == \E i \in 1..Len(line) : line[i] = "{"
HasCloseBrace(line) == \E i \in 1..Len(line) : line[i] = "}"

\* (line.match(/{/g) || []).length - (line.match(/}/g) || []).length
BraceDelta(line) == CountIn(line, {"{"}) - CountIn(line, {"}"})

\* The state before the first line.
CssStart(rd) ==
    [inRuleBlock |-> FALSE, braceCount |-> 0, skipCurrentRule |-> FALSE,
     result |-> <<>>, fileCache |-> <<>>, reads |-> rd]

\* A line read outside a rule block that matches the selector pattern.
CssSelectorLine(dsk, md, files, st, line) ==
    LET hasOpenBrace  == HasOpenBrace(line)
        hasCloseBrace == HasCloseBrace(line)
        v  == isClassUsedInJsFiles(dsk, md, SelectorClassName(line), files,
                                   st.fileCache, st.reads)
        io == [st EXCEPT !.fileCache = v.fileCache, !.reads = v.reads]
    IN  IF ~v.used THEN
            IF hasOpenBrace /\ hasCloseBrace THEN
                [io EXCEPT !.skipCurrentRule = FALSE]
            ELSE IF hasOpenBrace THEN
                [io EXCEPT !.inRuleBlock = TRUE, !.braceCount = 1,
                           !.skipCurrentRule = TRUE]
            ELSE io
        ELSE
            IF hasOpenBrace /\ ~hasCloseBrace THEN
                [io EXCEPT !.result = Append(@, line), !.inRuleBlock = TRUE,
                           !.braceCount = 1, !.skipCurrentRule = FALSE]
            ELSE [io EXCEPT !.result = Append(@, line)]

\* CssOtherLine entering a block without setting the brace depth to 1.
CssOtherLine_KeepCount(st, line) ==
    IF HasOpenBrace(line) /\ ~HasCloseBrace(line) THEN
        [st EXCEPT !.result = Append(@, line), !.inRuleBlock = TRUE,
                   !.skipCurrentRule = FALSE]
    ELSE [st EXCEPT !.result = Append(@, line)]

\* CssOtherLine pushing the line without its leading whitespace.
CssOtherLine_PushTrimmed(st, line) ==
    LET trimmed == From(line, SkipSpace(line, 1))
    IN  IF HasOpenBrace(line) /\ ~HasCloseBrace(line) THEN
            [st EXCEPT !.result = Append(@, trimmed), !.inRuleBlock = TRUE,
                       !.braceCount = 1, !.skipCurrentRule = FALSE]
        ELSE [st EXCEPT !.result = Append(@, trimmed)]

\* A line read outside a rule block that does not match the selector pattern.
CssOtherLine(st, line) ==
    IF HasOpenBrace(line) /\ ~HasCloseBrace(line) THEN
        [st EXCEPT !.result = Append(@, line), !.inRuleBlock = TRUE,
                   !.braceCount = 1, !.skipCurrentRule = FALSE]
    ELSE [st EXCEPT !.result = Append(@, line)]

\* CssInsideLine leaving the block only when the count falls below zero.
CssInsideLine_CloseBelowZero(st, line) ==
    LET pushed == IF st.skipCurrentRule THEN st.result ELSE Append(st.result, line)
        count  == st.braceCount + BraceDelta(line)
    IN  IF count < 0 THEN
            [st EXCEPT !.result = pushed, !.braceCount = count,
                       !.inRuleBlock = FALSE, !.skipCurrentRule = FALSE]
        ELSE [st EXCEPT !.result = pushed, !.braceCount = count]

\* A line read inside a rule block.
CssInsideLine(st, line) ==
    LET pushed == IF st.skipCurrentRule THEN st.result ELSE Append(st.result, line)
        count  == st.braceCount + BraceDelta(line)
    IN  IF count <= 0 THEN
            [st EXCEPT !.result = pushed, !.braceCount = count,
                       !.inRuleBlock = FALSE, !.skipCurrentRule = FALSE]
        ELSE [st EXCEPT !.result = pushed, !.braceCount = count]

\* One turn of the loop over the lines.
CssLine(dsk, md, files, st, line) ==
    IF ~st.inRuleBlock THEN
        IF SelectorMatch(line) THEN CssSelectorLine(dsk, md, files, st, line)
        ELSE CssOtherLine(st, line)
    ELSE CssInsideLine(st, line)

\* The loop from line i on.
RECURSIVE CssLinesFrom(_, _, _, _, _, _)
CssLinesFrom(dsk, md, files, st, ls, i) ==
    IF i > Len(ls) THEN st
    ELSE Only({ CssLinesFrom(dsk, md, files, nx, ls, i + 1) :
                    nx \in {CssLine(dsk, md, files, st, ls[i])} })

\* removeUnusedCssClasses ending the text it returns with a newline.
removeUnusedCssClasses_TrailingNewline(dsk, md, css, files, rd) ==
    LET st == CssLinesFrom(dsk, md, files, CssStart(rd), SplitLines(css), 1)
    IN  [content |-> JoinLines(st.result) \o <<"\n">>, reads |-> st.reads]

\* The text returned, and the reads made on the way.
removeUnusedCssClasses(dsk, md, css, files, rd) ==
    LET st == CssLinesFrom(dsk, md, files, CssStart(rd), SplitLines(css), 1)
    IN  [content |-> JoinLines(st.result), reads |-> st.reads]

StripIdle ==
    /\ stripIn = <<>>
    /\ stripPrev = <<>>
    /\ stripOut = <<>>
    /\ stripPasses = 0

----------------------------------------------------------------------------
(* The files of the project. A path is the sequence of its names. *)

JsA == <<"src", "a.js">>
JsB == <<"src", "lib", "b.TSX">>
CssA == <<"src", "lib", "b.css">>
CssB == <<"src", "lib-old", "main.css">>

\* Files that discovery must pass over: under an ignored directory, of another
\* extension.
IgnoredJs == <<"src", "node_modules", "m.js">>
Notes == <<"src", "notes.txt">>

JsPaths == {JsA, JsB}
CssPaths == {CssA, CssB}
OtherPaths == {IgnoredJs, Notes}
Paths == JsPaths \cup CssPaths \cup OtherPaths

NoReads == [p \in Paths |-> 0]

\* The value of the variables of a part of the program that is not running.
FsIdle ==
    /\ disk = [p \in Paths |-> <<>>]
    /\ mode = [p \in Paths |-> "ok"]
    /\ reads = NoReads
    /\ jsFiles = <<>>

NoStats ==
    [consoleLogsRemoved |-> 0, cssClassesRemoved |-> 0, filesProcessed |-> 0,
     errors |-> <<>>, warnings |-> <<>>]

NoContrib == [consoleLogsRemoved |-> 0, cssClassesRemoved |-> 0, filesProcessed |-> 0]

RunIdle ==
    /\ projectRoot = "dir"
    /\ srcExists = TRUE
    /\ noAccess = {}
    /\ pc = "idle"
    /\ stats = NoStats
    /\ cssFiles = <<>>
    /\ fileIdx = 0
    /\ writes = NoReads
    /\ listed = <<>>
    /\ orig = disk
    /\ contrib = [p \in Paths |-> NoContrib]
    /\ PACKAGE_SRC = <<"opt", "turl-release", "src">>

VerIdle ==
    /\ verIn = <<>>
    /\ verOut = <<>>

NoConfig == [version |-> <<>>, projectName |-> <<>>, branch |-> <<>>]

RelIdle ==
    /\ args = <<>>
    /\ cliOptions = [branch |-> <<>>]
    /\ turlJson = [exists |-> FALSE, version |-> <<>>, projectName |-> <<>>,
                   branch |-> <<>>]
    /\ turlConfig = NoConfig
    /\ newVersion = <<>>
    /\ tree = [dirty |-> FALSE, diff |-> FALSE]
    /\ rpc = "idle"
    /\ exitCode = "none"
    /\ effects = <<>>
    /\ turlOrig = turlJson

CssIdle ==
    /\ cssContent = <<>>
    /\ lines = <<>>
    /\ lineNo = 0
    /\ inRuleBlock = FALSE
    /\ braceCount = 0
    /\ skipCurrentRule = FALSE
    /\ result = <<>>
    /\ fileCache = <<>>
    /\ cssOut = <<"pending">>
    /\ trace = <<>>

----------------------------------------------------------------------------
(* removeConsoleLogs applied to a text, and again to its own output *)

\* How many times in a row the function is applied.
MaxPasses == 2

\* Every token a source text of the stripper's inputs is made of.
StripAlphabet == {"console.", "log", "(", ")", ";", " ", "\n", "x"}
MaxStripLen == 4

\* Text around one call: the tokens of calls only.
CallAlphabet == {"console.", "log", "(", ")"}
MaxAround == 3

\* Argument lists: every string of parentheses up to MaxArgLen, and a core
\* wrapped in up to MaxNest pairs of parentheses.
MaxArgLen == 8
MaxNest == 4

RECURSIVE Repeat(_, _)
Repeat(t, n) == IF n = 0 THEN <<>> ELSE <<t>> \o Repeat(t, n - 1)

Wrap(d, core) == Repeat("(", d) \o core \o Repeat(")", d)

ArgCores ==
    { <<>>, <<"x">>, <<"x", "(", "x", ")", "x">>, <<"console.", "log", "(", "x", ")">>,
      <<"console.", "log", "(", "(", "(", "(", ")", ")", ")", ")">> }

CallHeads == { <<"console.", "log">>, <<"console.", "log", " ">> }

CallTails == { <<>>, <<";">>, <<" ", ";", "\n", "x">>, <<"x">> }

StripInputs == BoundedSeq(StripAlphabet, MaxStripLen)

JoinInputs ==
    { pre \o <<"console.", "log", "(", ")">> \o post :
        pre \in BoundedSeq(CallAlphabet, MaxAround),
        post \in BoundedSeq(CallAlphabet, MaxAround) }

NestInputs ==
    { h \o a \o t : h \in CallHeads, t \in CallTails,
        a \in BoundedSeq(Parens, MaxArgLen)
              \cup { Wrap(d, c) : d \in 1..MaxNest, c \in ArgCores } }

StripStart(inputs) ==
    /\ stripIn \in inputs
    /\ stripPrev = stripIn
    /\ stripOut = stripIn
    /\ stripPasses = 0
    /\ FsIdle
    /\ CssIdle
    /\ RunIdle
    /\ VerIdle
    /\ RelIdle

\* cleaned = removeConsoleLogs(content), on the text at hand.
StripPass ==
    /\ stripPasses < MaxPasses
    /\ stripPrev' = stripOut
    /\ stripOut' = removeConsoleLogs(stripOut)
    /\ stripPasses' = stripPasses + 1
    /\ UNCHANGED <<stripIn, fsVars, cssVars, runVars, verVars, relVars>>

InitStrip == StripStart(StripInputs)
InitJoin == StripStart(JoinInputs)
InitNest == StripStart(NestInputs)

NextStrip == StripPass

SpecStrip == InitStrip /\ [][NextStrip]_vars
SpecJoin == InitJoin /\ [][NextStrip]_vars
SpecNest == InitNest /\ [][NextStrip]_vars

----------------------------------------------------------------------------
(* Claims about removeConsoleLogs *)

\* C4 (as stated): a text with no occurrence of console.log comes back from
\* removeConsoleLogs unchanged, token for token.
C4_UnchangedWithoutToken ==
    (stripPasses = 1 /\ CountConsoleLog(stripIn) = 0) => stripOut = stripIn

\* C5 (as stated): removeConsoleLogs applied to its own output returns that
\* output.
C5_Idempotent ==
    stripPasses >= 2 => stripOut = stripPrev

\* What a call is, read off the text alone: console.log, optional whitespace, and
\* a parenthesised argument list, closed however deep it nests.

\* From inside a parenthesised group (position i, `open` parentheses open), the
\* position just after the parenthesis that closes it, or 0 if none does.
RECURSIVE BalancedEnd(_, _, _)
BalancedEnd(s, i, open) ==
    IF i > Len(s) THEN 0
    ELSE IF s[i] = "(" THEN BalancedEnd(s, i + 1, open + 1)
    ELSE IF s[i] = ")" THEN (IF open = 1 THEN i + 1 ELSE BalancedEnd(s, i + 1, open - 1))
    ELSE BalancedEnd(s, i + 1, open)

\* How deep the parentheses in s[from..to] nest (0: none).
NestingOf(s, from, to) ==
    LET level(k) == Cardinality({m \in from..k : s[m] = "("})
                    - Cardinality({m \in from..(k - 1) : s[m] = ")"})
        levels == {level(k) : k \in from..to}
    IN  IF from > to THEN 0 ELSE CHOOSE l \in levels : \A m \in levels : m <= l

\* The position of the opening parenthesis of the call at i, or 0.
CallOpen(s, i) ==
    IF ~IsConsoleLogAt(s, i) THEN 0
    ELSE LET p == SkipSpace(s, i + 2)
         IN  IF p <= Len(s) /\ s[p] = "(" THEN p ELSE 0

\* The text with every call of at most two nesting levels deleted together with
\* its terminator. A deeper call is copied whole (keepDeepWhole) or only loses
\* the shallower calls inside its arguments.
RECURSIVE WithoutShallowCalls(_, _, _)
WithoutShallowCalls(s, i, keepDeepWhole) ==
    IF i > Len(s) THEN <<>>
    ELSE LET p == CallOpen(s, i)
             e == IF p = 0 THEN 0 ELSE BalancedEnd(s, p + 1, 1)
         IN  IF e = 0 THEN <<s[i]>> \o WithoutShallowCalls(s, i + 1, keepDeepWhole)
             ELSE IF NestingOf(s, p + 1, e - 2) <= 2
                  THEN WithoutShallowCalls(s, SkipTerminator(s, e), keepDeepWhole)
             ELSE IF keepDeepWhole
                  THEN Slice(s, i, e - 1) \o WithoutShallowCalls(s, e, keepDeepWhole)
             ELSE <<s[i]>> \o WithoutShallowCalls(s, i + 1, keepDeepWhole)

TidyBlankLines(s) == CollapseNewlineRuns(CollapseBlankLines(s, 1), 1)

----------------------------------------------------------------------------
(* removeUnusedCssClasses, one line of the stylesheet per step *)

\* The longest stylesheet, in lines.
MaxCssLines == 3

CssLineSet ==
    { <<".", "a", " ", "{">>,                          \* .a {
      <<".", "b", " ", "{">>,                          \* .b {
      <<".", "a", ".", "b", " ", "{">>,                \* .a.b {
      <<".", "a", ",", " ", ".", "b", " ", "{">>,      \* .a, .b {
      <<".", "a", ":", "x", " ", "{">>,                \* .a:x {
      <<".", "a", " ", "{", " ", "x", " ", "}">>,      \* .a { x }
      <<".", "a", ".", "b", "{", "x", "}">>,           \* .a.b{x}
      <<".", "a">>,                                    \* .a
      <<"{">>,
      <<" ", "x">>,
      <<"x", " ", "{">>,                               \* x {
      <<"}">> }

\* The source files the stylesheet is checked against.
JsTextsA == { <<"x">>, <<"'", "a", "'">> }
JsTextsB == { <<"x">>, <<"styles", ".", "b">> }

CssInputs == { JoinLines(ls) : ls \in BoundedSeq(CssLineSet, MaxCssLines) }

InitCss ==
    /\ StripIdle
    /\ \E ta \in JsTextsA, tb \in JsTextsB :
          disk = [p \in Paths |-> IF p = JsA THEN ta ELSE IF p = JsB THEN tb ELSE <<>>]
    /\ \E ma \in {"ok", "noread"} :
          mode = [p \in Paths |-> IF p = JsA THEN ma ELSE "ok"]
    /\ reads = NoReads
    /\ jsFiles = <<JsA, JsB>>
    /\ cssContent \in CssInputs
    /\ lines = SplitLines(cssContent)
    /\ lineNo = 1
    /\ inRuleBlock = FALSE
    /\ braceCount = 0
    /\ skipCurrentRule = FALSE
    /\ result = <<>>
    /\ fileCache = <<>>
    /\ cssOut = <<"pending">>
    /\ trace = <<>>
    /\ RunIdle
    /\ VerIdle
    /\ RelIdle

\* for (const line of lines) { ... }: one turn.
CssReadLine ==
    /\ lineNo >= 1
    /\ lineNo <= Len(lines)
    /\ LET st == [inRuleBlock |-> inRuleBlock, braceCount |-> braceCount,
                  skipCurrentRule |-> skipCurrentRule, result |-> result,
                  fileCache |-> fileCache, reads |-> reads]
           nx == CssLine(disk, mode, jsFiles, st, lines[lineNo])
       IN  /\ inRuleBlock' = nx.inRuleBlock
           /\ braceCount' = nx.braceCount
           /\ skipCurrentRule' = nx.skipCurrentRule
           /\ result' = nx.result
           /\ fileCache' = nx.fileCache
           /\ reads' = nx.reads
           /\ trace' = Append(trace, [outside |-> ~inRuleBlock,
                                      emitted |-> nx.result # result])
    /\ lineNo' = lineNo + 1
    /\ UNCHANGED <<cssContent, lines, cssOut, disk, mode, jsFiles, stripVars, runVars,
                   verVars, relVars>>

\* return result.join("\n")
CssReturn ==
    /\ lineNo = Len(lines) + 1
    /\ cssOut = <<"pending">>
    /\ cssOut' = JoinLines(result)
    /\ lineNo' = 0
    /\ UNCHANGED <<cssContent, lines, inRuleBlock, braceCount, skipCurrentRule, result,
                   fileCache, trace, fsVars, stripVars, runVars,
                   verVars, relVars>>

NextCss == CssReadLine \/ CssReturn

SpecCss == InitCss /\ [][NextCss]_vars

----------------------------------------------------------------------------
(* Claims about removeUnusedCssClasses *)

Min(x, y) == IF x <= y THEN x ELSE y

\* The usage verdict of a class: what isClassUsedInJsFiles answers for it.
Verdict(className) ==
    isClassUsedInJsFiles(disk, mode, className, jsFiles, <<>>, NoReads).used

Opens(line) == Cardinality({k \in 1..Len(line) : line[k] = "{"})
Closes(line) == Cardinality({k \in 1..Len(line) : line[k] = "}"})

\* The line on which the running brace depth first reaches zero or below, the
\* depth being `depth` before line j; Len(ls) + 1 when no line does.
RECURSIVE BlockEndFrom(_, _, _)
BlockEndFrom(ls, j, depth) ==
    IF j > Len(ls) THEN Len(ls) + 1
    ELSE LET after == depth + Opens(ls[j]) - Closes(ls[j])
         IN  IF after <= 0 THEN j ELSE BlockEndFrom(ls, j + 1, after)

\* The last line of the block that line i opens.
BlockEnd(ls, i) == BlockEndFrom(ls, i + 1, 1)

\* Line i was read outside a rule, matches the selector pattern and opens a
\* block that it does not close.
OpensMatchedBlock(i) ==
    /\ trace[i].outside
    /\ SelectorMatch(lines[i])
    /\ HasOpenBrace(lines[i])
    /\ ~HasCloseBrace(lines[i])

\* The lines that were pushed, in order.
RECURSIVE PushedLines(_, _, _)
PushedLines(ls, tr, i) ==
    IF i > Len(tr) THEN <<>>
    ELSE (IF tr[i].emitted THEN <<ls[i]>> ELSE <<>>) \o PushedLines(ls, tr, i + 1)

\* C1: a line read outside a rule that matches the selector pattern and opens a
\* block without closing it is, with every line up to and including the one on
\* which the brace depth first reaches zero or below, omitted when the verdict of
\* its class is false and emitted verbatim when it is true; the line after the
\* block is read outside a rule.
C1_MultiLineBlock ==
    /\ \A i \in 1..Len(trace) :
          OpensMatchedBlock(i) =>
              LET j == BlockEnd(lines, i)
                  used == Verdict(SelectorClassName(lines[i]))
              IN  /\ \A k \in i..Min(j, Len(trace)) : trace[k].emitted = used
                  /\ \A k \in (i + 1)..Min(j, Len(trace)) : ~trace[k].outside
                  /\ j + 1 <= Len(trace) => trace[j + 1].outside
    /\ result = PushedLines(lines, trace, 1)
    /\ cssOut # <<"pending">> => cssOut = JoinLines(PushedLines(lines, trace, 1))

\* C1 witness: the call has returned; an unused block of two lines was omitted
\* and the opener of a used block after it was emitted.
C1_Witness ==
    /\ cssOut # <<"pending">>
    /\ \E i \in 1..Len(trace) :
          /\ OpensMatchedBlock(i)
          /\ ~Verdict(SelectorClassName(lines[i]))
          /\ i + 2 <= Len(trace)
          /\ BlockEnd(lines, i) = i + 1
          /\ ~trace[i].emitted /\ ~trace[i + 1].emitted
          /\ OpensMatchedBlock(i + 2)
          /\ Verdict(SelectorClassName(lines[i + 2]))
          /\ trace[i + 2].emitted

\* A rule of one class written on one line: .name { declarations }
SingleLineRule(line) ==
    LET d == SkipSpace(line, 1)
        o == SkipSpace(line, SkipWord(line, d + 1))
    IN  /\ IsClassAt(line, d)
        /\ o <= Len(line)
        /\ line[o] = "{"
        /\ Opens(line) = 1
        /\ Closes(line) = 1
        /\ \E c \in (o + 1)..Len(line) : line[c] = "}" /\ SkipSpace(line, c + 1) = Len(line) + 1

\* C2 (as stated): an unused single-class rule written entirely on one line is
\* omitted, and the next line is read outside a rule.
C2_SingleLineRuleOmitted ==
    \A i \in 1..Len(trace) :
        (/\ trace[i].outside
         /\ SingleLineRule(lines[i])
         /\ ~Verdict(SelectorClassName(lines[i])))
        => /\ ~trace[i].emitted
           /\ i + 1 <= Len(trace) => trace[i + 1].outside

\* A rule whose selector starts with a class and goes on: compound (.a.b),
\* pseudo or attribute (.a:x), list (.a, .b).
NonPlainSelector(line) ==
    LET d == SkipSpace(line, 1)
        f == SkipSpace(line, SkipWord(line, d + 1))
    IN  /\ IsClassAt(line, d)
        /\ f <= Len(line)
        /\ line[f] # "{"
        /\ HasOpenBrace(line)

\* C3 (as stated): every line of a rule whose selector is not a plain single
\* class is emitted, whatever the verdicts of the classes in the selector.
C3_NonPlainRuleKept ==
    \A i \in 1..Len(trace) :
        (trace[i].outside /\ NonPlainSelector(lines[i]))
        => /\ trace[i].emitted
           /\ ~HasCloseBrace(lines[i]) =>
                 \A k \in i..Min(BlockEnd(lines, i), Len(trace)) : trace[k].emitted

----------------------------------------------------------------------------
(* validateProjectRoot and the discovery of the files *)

\* What run may be handed as projectRoot: nothing, a value that is not a string,
\* a path statSync fails on with ENOENT, with EACCES, with another code, the path
\* of a regular file, the path of a directory.
RootKinds == {"missing", "nonstring", "enoent", "eacces", "eio", "file", "dir"}

\* validateProjectRoot without the isDirectory test.
validateProjectRoot_NoDirectoryTest(root) ==
    IF root = "missing" THEN [ok |-> FALSE, code |-> "INVALID_PROJECT_ROOT", cleanup |-> TRUE]
    ELSE IF root = "nonstring" THEN [ok |-> FALSE, code |-> "INVALID_PROJECT_ROOT", cleanup |-> TRUE]
    ELSE IF root = "enoent" THEN [ok |-> FALSE, code |-> "INVALID_PROJECT_ROOT", cleanup |-> TRUE]
    ELSE IF root = "eacces" THEN [ok |-> FALSE, code |-> "PERMISSION_DENIED", cleanup |-> TRUE]
    ELSE IF root = "eio" THEN [ok |-> FALSE, code |-> "INVALID_PROJECT_ROOT", cleanup |-> TRUE]
    ELSE [ok |-> TRUE, code |-> "NONE", cleanup |-> TRUE]

\* validateProjectRoot letting a stat error that is neither ENOENT nor EACCES
\* escape as it is.
validateProjectRoot_RawStatError(root) ==
    IF root = "missing"
    THEN [ok |-> FALSE, code |-> "INVALID_PROJECT_ROOT", cleanup |-> TRUE]
    ELSE IF root = "nonstring"
    THEN [ok |-> FALSE, code |-> "INVALID_PROJECT_ROOT", cleanup |-> TRUE]
    ELSE IF root = "file"
    THEN [ok |-> FALSE, code |-> "INVALID_PROJECT_ROOT", cleanup |-> TRUE]
    ELSE IF root = "enoent"
    THEN [ok |-> FALSE, code |-> "INVALID_PROJECT_ROOT", cleanup |-> TRUE]
    ELSE IF root = "eacces"
    THEN [ok |-> FALSE, code |-> "PERMISSION_DENIED", cleanup |-> TRUE]
    ELSE IF root = "eio" THEN [ok |-> FALSE, code |-> "EIO", cleanup |-> FALSE]
    ELSE [ok |-> TRUE, code |-> "NONE", cleanup |-> TRUE]

\* The resolved path, or the error thrown: its code, and whether it is a
\* CleanupError.
validateProjectRoot(root) ==
    IF root = "missing" THEN [ok |-> FALSE, code |-> "INVALID_PROJECT_ROOT", cleanup |-> TRUE]
    ELSE IF root = "nonstring" THEN [ok |-> FALSE, code |-> "INVALID_PROJECT_ROOT", cleanup |-> TRUE]
    ELSE IF root = "file" THEN [ok |-> FALSE, code |-> "INVALID_PROJECT_ROOT", cleanup |-> TRUE]
    ELSE IF root = "enoent" THEN [ok |-> FALSE, code |-> "INVALID_PROJECT_ROOT", cleanup |-> TRUE]
    ELSE IF root = "eacces" THEN [ok |-> FALSE, code |-> "PERMISSION_DENIED", cleanup |-> TRUE]
    ELSE IF root = "eio" THEN [ok |-> FALSE, code |-> "INVALID_PROJECT_ROOT", cleanup |-> TRUE]
    ELSE [ok |-> TRUE, code |-> "NONE", cleanup |-> TRUE]

IGNORE_DIRS == {"node_modules", "dist", "build", ".git", "coverage", ".next", ".cache"}
JS_EXTENSIONS == {".js", ".jsx", ".ts", ".tsx"}
CSS_EXTENSIONS == {".css"}

\* Where the engine's own source can be: outside the project, or in a directory
\* of the project's src tree.
PackageOutside == <<"opt", "turl-release", "src">>

SrcDir == <<"src">>
LibDir == <<"src", "lib">>
LibOldDir == <<"src", "lib-old">>

\* The directories of the project, and readdirSync on each.
Dirs == {SrcDir, LibDir, LibOldDir, <<"src", "node_modules">>}

DirEntries(dir) ==
    IF dir = SrcDir THEN <<"a.js", "lib", "lib-old", "node_modules", "notes.txt">>
    ELSE IF dir = LibDir THEN <<"b.TSX", "b.css">>
    ELSE IF dir = LibOldDir THEN <<"main.css">>
    ELSE IF dir = <<"src", "node_modules">> THEN <<"m.js">>
    ELSE <<>>

\* path.extname(name).toLowerCase() on the names of the project.
ExtName(name) ==
    IF name \in {"a.js", "m.js"} THEN ".js"
    ELSE IF name = "b.TSX" THEN ".TSX"
    ELSE IF name \in {"b.css", "main.css"} THEN ".css"
    ELSE IF name = "notes.txt" THEN ".txt"
    ELSE ""

ToLowerCase(ext) == IF ext = ".TSX" THEN ".tsx" ELSE ext

\* isPackageFile that finds no file to be the engine's own.
isPackageFile_NoExclusion(filePath) == FALSE

\* name.startsWith(prefix) on the names of the project: startsWith compares
\* characters, so "lib-old" starts with "lib".
StartsWithName(name, prefix) ==
    name = prefix \/ (name = "lib-old" /\ prefix = "lib")

\* filePath.startsWith(PACKAGE_SRC): the two are strings, the path's components
\* joined by the separator. PACKAGE_SRC ends inside the component of filePath
\* at its own length: the components before it are equal, and that component
\* is the last of PACKAGE_SRC followed by a separator, by the end of the path
\* or by more characters of the same name.
isPackageFile(filePath) ==
    LET n == Len(PACKAGE_SRC)
    IN  /\ Len(filePath) >= n
        /\ Slice(filePath, 1, n - 1) = Slice(PACKAGE_SRC, 1, n - 1)
        /\ StartsWithName(filePath[n], PACKAGE_SRC[n])

\* getAllFiles(dir, extensions, files, errors). acc carries files and errors, and
\* the directories handed to readdirSync; denied are the directories it fails on.
RECURSIVE getAllFiles(_, _, _, _)
RECURSIVE GetEntriesFrom(_, _, _, _, _)
getAllFiles(denied, dir, extensions, acc) ==
    LET tried == [acc EXCEPT !.listed = Append(@, dir)]
    IN  IF dir \in denied
        THEN [tried EXCEPT !.errors = Append(@, [path |-> dir,
                                                  type |-> "permission_denied"])]
        ELSE GetEntriesFrom(denied, dir, extensions, tried, 1)

GetEntriesFrom(denied, dir, extensions, acc, i) ==
    IF i > Len(DirEntries(dir)) THEN acc
    ELSE LET name == DirEntries(dir)[i]
             fullPath == Append(dir, name)
             nx == IF fullPath \in Dirs
                   THEN IF name \notin IGNORE_DIRS
                        THEN getAllFiles(denied, fullPath, extensions, acc)
                        ELSE acc
                   ELSE IF /\ ToLowerCase(ExtName(name)) \in extensions
                           /\ ~isPackageFile(fullPath)
                        THEN [acc EXCEPT !.files = Append(@, fullPath)]
                        ELSE acc
         IN  GetEntriesFrom(denied, dir, extensions, nx, i + 1)

NoFiles == [files |-> <<>>, errors |-> <<>>, listed |-> <<>>]

\* stats.warnings.push(...result.errors.map(...))
ScanWarnings(errors) ==
    [k \in 1..Len(errors) |-> [code |-> "DIRECTORY_SCAN_ERROR", path |-> errors[k].path]]

----------------------------------------------------------------------------
(* The two loops of run. w is the world a turn of a loop works on: the disk, the
   read and write counts, the statistics. *)

ErrorRecord(c, file) == [code |-> c, path |-> file]

Bump(cnt, file) == [cnt EXCEPT ![file] = @ + 1]

\* The body of for (const file of jsFiles), counting before the write is known
\* to have succeeded.
ProcessJsFile_CountBeforeWrite(w, md, file) ==
    LET rd == safeReadFile(w.disk, md, file)
        w1 == [w EXCEPT !.reads = Bump(@, file)]
    IN  IF ~rd.ok
        THEN [w1 EXCEPT !.stats.errors = Append(@, ErrorRecord(rd.code, file))]
        ELSE LET cleaned == removeConsoleLogs(rd.content)
                 wr == safeWriteFile(w1.disk, md, file, cleaned)
                 removed == CountConsoleLog(rd.content) - CountConsoleLog(cleaned)
                 w2 == [w1 EXCEPT !.writes = Bump(@, file),
                                  !.stats.consoleLogsRemoved = @ + removed,
                                  !.stats.filesProcessed = @ + 1]
             IN  IF cleaned = rd.content THEN w1
                 ELSE IF ~wr.ok
                 THEN [w2 EXCEPT !.stats.errors = Append(@, ErrorRecord(wr.code, file))]
                 ELSE [w2 EXCEPT !.disk = wr.disk]

\* The body of for (const file of jsFiles).
ProcessJsFile(w, md, file) ==
    LET rd == safeReadFile(w.disk, md, file)
        w1 == [w EXCEPT !.reads = Bump(@, file)]
    IN  IF ~rd.ok
        THEN [w1 EXCEPT !.stats.errors = Append(@, ErrorRecord(rd.code, file))]
        ELSE LET cleaned == removeConsoleLogs(rd.content)
                 wr == safeWriteFile(w1.disk, md, file, cleaned)
                 removed == CountConsoleLog(rd.content) - CountConsoleLog(cleaned)
                 w2 == [w1 EXCEPT !.writes = Bump(@, file)]
             IN  IF cleaned = rd.content THEN w1
                 ELSE IF ~wr.ok
                 THEN [w2 EXCEPT !.stats.errors = Append(@, ErrorRecord(wr.code, file))]
                 ELSE [w2 EXCEPT !.disk = wr.disk,
                                 !.stats.consoleLogsRemoved = @ + removed,
                                 !.stats.filesProcessed = @ + 1]

\* The body of for (const file of cssFiles), counting the class names left
\* instead of the class names gone.
ProcessCssFile_CountClassesLeft(w, md, files, file) ==
    LET rd == safeReadFile(w.disk, md, file)
        w1 == [w EXCEPT !.reads = Bump(@, file)]
    IN  IF ~rd.ok
        THEN [w1 EXCEPT !.stats.errors = Append(@, ErrorRecord(rd.code, file))]
        ELSE LET classesBefore == Cardinality(extractCssClasses(rd.content))
                 out == removeUnusedCssClasses(w1.disk, md, rd.content, files, w1.reads)
                 cleaned == out.content
                 classesAfter == Cardinality(extractCssClasses(cleaned))
                 removed == classesAfter
                 w2 == [w1 EXCEPT !.reads = out.reads]
                 wr == safeWriteFile(w2.disk, md, file, cleaned)
                 w3 == [w2 EXCEPT !.writes = Bump(@, file)]
             IN  IF cleaned = rd.content THEN w2
                 ELSE IF ~wr.ok
                 THEN [w3 EXCEPT !.stats.errors = Append(@, ErrorRecord(wr.code, file))]
                 ELSE [w3 EXCEPT !.disk = wr.disk,
                                 !.stats.cssClassesRemoved = @ + removed,
                                 !.stats.filesProcessed = @ + 1]

\* The body of for (const file of cssFiles), writing the cleaned text back
\* whether or not it differs.
ProcessCssFile_WriteAlways(w, md, files, file) ==
    LET rd == safeReadFile(w.disk, md, file)
        w1 == [w EXCEPT !.reads = Bump(@, file)]
    IN  IF ~rd.ok
        THEN [w1 EXCEPT !.stats.errors = Append(@, ErrorRecord(rd.code, file))]
        ELSE LET classesBefore == Cardinality(extractCssClasses(rd.content))
                 out == removeUnusedCssClasses(w1.disk, md, rd.content, files, w1.reads)
                 cleaned == out.content
                 classesAfter == Cardinality(extractCssClasses(cleaned))
                 removed == classesBefore - classesAfter
                 w2 == [w1 EXCEPT !.reads = out.reads]
                 wr == safeWriteFile(w2.disk, md, file, cleaned)
                 w3 == [w2 EXCEPT !.writes = Bump(@, file)]
             IN  IF ~wr.ok
                 THEN [w3 EXCEPT !.stats.errors = Append(@, ErrorRecord(wr.code, file))]
                 ELSE [w3 EXCEPT !.disk = wr.disk,
                                 !.stats.cssClassesRemoved = @ + removed,
                                 !.stats.filesProcessed =
                                     @ + (IF cleaned = rd.content THEN 0 ELSE 1)]

\* The body of for (const file of cssFiles).
ProcessCssFile(w, md, files, file) ==
    LET rd == safeReadFile(w.disk, md, file)
        w1 == [w EXCEPT !.reads = Bump(@, file)]
    IN  IF ~rd.ok
        THEN [w1 EXCEPT !.stats.errors = Append(@, ErrorRecord(rd.code, file))]
        ELSE LET classesBefore == Cardinality(extractCssClasses(rd.content))
                 out == removeUnusedCssClasses(w1.disk, md, rd.content, files, w1.reads)
                 cleaned == out.content
                 classesAfter == Cardinality(extractCssClasses(cleaned))
                 removed == classesBefore - classesAfter
                 w2 == [w1 EXCEPT !.reads = out.reads]
                 wr == safeWriteFile(w2.disk, md, file, cleaned)
                 w3 == [w2 EXCEPT !.writes = Bump(@, file)]
             IN  IF cleaned = rd.content THEN w2
                 ELSE IF ~wr.ok
                 THEN [w3 EXCEPT !.stats.errors = Append(@, ErrorRecord(wr.code, file))]
                 ELSE [w3 EXCEPT !.disk = wr.disk,
                                 !.stats.cssClassesRemoved = @ + removed,
                                 !.stats.filesProcessed = @ + 1]

----------------------------------------------------------------------------
(* run, one step per statement: validation, the src check, discovery, one turn
   of each loop per file, the return *)

\* The texts of the project's files when run is called.
LogA == <<"console.", "log", "(", "'", "a", "'", ")", ";">>      \* console.log('a');
LogB == <<"console.", "log", "(", ")", ";", "\n", "styles", ".", "b">>
RuleA == <<".", "a", " ", "{", "\n", " ", "x", "\n", "}">>       \* .a { x } on three lines
RuleAB == RuleA \o <<"\n", ".", "b", " ", "{", " ", "x", " ", "}">>
RuleAA == <<".", "a", " ", "{", "\n", "}", "\n", ".", "a", " ", "{", " ", "x", " ", "}">>

RunTextsJsA == { LogA, <<"'", "a", "'">>, <<"x">> }
RunTextsJsB == { <<"x">>, LogB }
RunTextsCssA == { RuleA, <<"x">> }
RunTextsCssB == { RuleAB, RuleAA }

InitRun ==
    /\ StripIdle
    /\ CssIdle
    /\ VerIdle
    /\ RelIdle
    /\ projectRoot \in RootKinds
    /\ srcExists \in BOOLEAN
    /\ \E ta \in RunTextsJsA, tb \in RunTextsJsB, ca \in RunTextsCssA, cb \in RunTextsCssB :
          disk = [p \in Paths |->
                     IF p = JsA THEN ta ELSE IF p = JsB THEN tb
                     ELSE IF p = CssA THEN ca ELSE IF p = CssB THEN cb
                     ELSE LogA]
    /\ IF projectRoot = "dir" /\ srcExists
       THEN /\ noAccess \in {{}, {LibDir}, {SrcDir}}
            /\ \E m \in [JsPaths \cup CssPaths -> FileModes] :
                  mode = [p \in Paths |-> IF p \in DOMAIN m THEN m[p] ELSE "ok"]
       ELSE /\ noAccess = {}
            /\ mode = [p \in Paths |-> "ok"]
    /\ reads = NoReads
    /\ jsFiles = <<>>
    /\ pc = "validate"
    /\ stats = NoStats
    /\ cssFiles = <<>>
    /\ fileIdx = 0
    /\ writes = NoReads
    /\ listed = <<>>
    /\ orig = disk
    /\ contrib = [p \in Paths |-> NoContrib]
    /\ PACKAGE_SRC \in {PackageOutside, LibDir}

\* try { resolvedRoot = validateProjectRoot(projectRoot) }
\* catch (err) { if (err instanceof CleanupError) { push; return stats } throw err }
RunValidate ==
    /\ pc = "validate"
    /\ LET v == validateProjectRoot(projectRoot)
       IN  IF v.ok
           THEN /\ pc' = "checkSrc"
                /\ stats' = stats
           ELSE IF v.cleanup
           THEN /\ pc' = "return"
                /\ stats' = [stats EXCEPT !.errors = Append(@, ErrorRecord(v.code, <<>>))]
           ELSE /\ pc' = "thrown"
                /\ stats' = stats
    /\ UNCHANGED <<projectRoot, srcExists, noAccess, cssFiles, fileIdx, writes, listed,
                   orig, contrib, PACKAGE_SRC, fsVars, stripVars, cssVars,
                   verVars, relVars>>

\* The src check going on to discovery when src is missing.
RunCheckSrc_NoReturn ==
    /\ pc = "checkSrc"
    /\ pc' = "discover"
    /\ stats' = IF srcExists THEN stats
                ELSE [stats EXCEPT !.warnings =
                         Append(@, [code |-> "SRC_DIR_NOT_FOUND", path |-> SrcDir])]
    /\ UNCHANGED <<projectRoot, srcExists, noAccess, cssFiles, fileIdx, writes, listed,
                   orig, contrib, PACKAGE_SRC, fsVars, stripVars, cssVars,
                   verVars, relVars>>

\* if (!fs.existsSync(srcDir)) { warnings.push(SRC_DIR_NOT_FOUND); return stats }
RunCheckSrc ==
    /\ pc = "checkSrc"
    /\ IF srcExists
       THEN /\ pc' = "discover"
            /\ stats' = stats
       ELSE /\ pc' = "return"
            /\ stats' = [stats EXCEPT !.warnings =
                            Append(@, [code |-> "SRC_DIR_NOT_FOUND", path |-> SrcDir])]
    /\ UNCHANGED <<projectRoot, srcExists, noAccess, cssFiles, fileIdx, writes, listed,
                   orig, contrib, PACKAGE_SRC, fsVars, stripVars, cssVars,
                   verVars, relVars>>

\* Discovery going straight on to the loop over the stylesheets.
RunDiscover_CssFirst ==
    /\ pc = "discover"
    /\ \E jsResult \in {getAllFiles(noAccess, SrcDir, JS_EXTENSIONS, NoFiles)},
          cssResult \in {getAllFiles(noAccess, SrcDir, CSS_EXTENSIONS, NoFiles)} :
           /\ stats' = [stats EXCEPT !.warnings = @ \o ScanWarnings(jsResult.errors)
                                                     \o ScanWarnings(cssResult.errors)]
           /\ jsFiles' = jsResult.files
           /\ cssFiles' = cssResult.files
           /\ listed' = listed \o jsResult.listed \o cssResult.listed
    /\ pc' = "css"
    /\ fileIdx' = 1
    /\ UNCHANGED <<projectRoot, srcExists, noAccess, writes, orig, contrib, PACKAGE_SRC, disk, mode,
                   reads, stripVars, cssVars,
                   verVars, relVars>>

\* The two getAllFiles calls and the warnings made of their errors.
RunDiscover ==
    /\ pc = "discover"
    /\ \E jsResult \in {getAllFiles(noAccess, SrcDir, JS_EXTENSIONS, NoFiles)},
          cssResult \in {getAllFiles(noAccess, SrcDir, CSS_EXTENSIONS, NoFiles)} :
           /\ stats' = [stats EXCEPT !.warnings = @ \o ScanWarnings(jsResult.errors)
                                                     \o ScanWarnings(cssResult.errors)]
           /\ jsFiles' = jsResult.files
           /\ cssFiles' = cssResult.files
           /\ listed' = listed \o jsResult.listed \o cssResult.listed
    /\ pc' = "js"
    /\ fileIdx' = 1
    /\ UNCHANGED <<projectRoot, srcExists, noAccess, writes, orig, contrib, PACKAGE_SRC, disk, mode,
                   reads, stripVars, cssVars,
                   verVars, relVars>>

World == [disk |-> disk, reads |-> reads, writes |-> writes, stats |-> stats]

\* What a turn that took the statistics from s to t added to the counters.
Added(s, t) ==
    [consoleLogsRemoved |-> t.consoleLogsRemoved - s.consoleLogsRemoved,
     cssClassesRemoved |-> t.cssClassesRemoved - s.cssClassesRemoved,
     filesProcessed |-> t.filesProcessed - s.filesProcessed]

\* One turn of for (const file of jsFiles).
RunJsFile ==
    /\ pc = "js"
    /\ fileIdx <= Len(jsFiles)
    /\ \E w \in {ProcessJsFile(World, mode, jsFiles[fileIdx])} :
           /\ disk' = w.disk
           /\ reads' = w.reads
           /\ writes' = w.writes
           /\ stats' = w.stats
           /\ contrib' = [contrib EXCEPT ![jsFiles[fileIdx]] = Added(stats, w.stats)]
    /\ fileIdx' = fileIdx + 1
    /\ UNCHANGED <<projectRoot, srcExists, noAccess, pc, cssFiles, listed, orig, PACKAGE_SRC, mode,
                   jsFiles, stripVars, cssVars,
                   verVars, relVars>>

\* The first loop is over.
RunJsDone ==
    /\ pc = "js"
    /\ fileIdx > Len(jsFiles)
    /\ pc' = "css"
    /\ fileIdx' = 1
    /\ UNCHANGED <<projectRoot, srcExists, noAccess, stats, cssFiles, writes, listed,
                   orig, contrib, PACKAGE_SRC, fsVars, stripVars, cssVars,
                   verVars, relVars>>

\* One turn of for (const file of cssFiles).
RunCssFile ==
    /\ pc = "css"
    /\ fileIdx <= Len(cssFiles)
    /\ \E w \in {ProcessCssFile(World, mode, jsFiles, cssFiles[fileIdx])} :
           /\ disk' = w.disk
           /\ reads' = w.reads
           /\ writes' = w.writes
           /\ stats' = w.stats
           /\ contrib' = [contrib EXCEPT ![cssFiles[fileIdx]] = Added(stats, w.stats)]
    /\ fileIdx' = fileIdx + 1
    /\ UNCHANGED <<projectRoot, srcExists, noAccess, pc, cssFiles, listed, orig, PACKAGE_SRC, mode,
                   jsFiles, stripVars, cssVars,
                   verVars, relVars>>

\* The second loop is over.
RunCssDone ==
    /\ pc = "css"
    /\ fileIdx > Len(cssFiles)
    /\ pc' = "return"
    /\ UNCHANGED <<projectRoot, srcExists, noAccess, stats, cssFiles, fileIdx, writes,
                   listed, orig, contrib, PACKAGE_SRC, fsVars, stripVars, cssVars,
                   verVars, relVars>>

\* return stats
RunReturn ==
    /\ pc = "return"
    /\ pc' = "done"
    /\ UNCHANGED <<projectRoot, srcExists, noAccess, stats, cssFiles, fileIdx, writes,
                   listed, orig, contrib, PACKAGE_SRC, fsVars, stripVars, cssVars,
                   verVars, relVars>>

NextRun ==
    \/ RunValidate
    \/ RunCheckSrc
    \/ RunDiscover
    \/ RunJsFile
    \/ RunJsDone
    \/ RunCssFile
    \/ RunCssDone
    \/ RunReturn

SpecRun == InitRun /\ [][NextRun]_vars

----------------------------------------------------------------------------
(* Claims about run *)

Range(s) == {s[k] : k \in 1..Len(s)}

Discovered == Range(jsFiles) \cup Range(cssFiles)

Readable(f) == mode[f] # "noread"

\* What the transform makes of the content read from f. Every stylesheet is
\* transformed after the first loop is over, so once run has returned the source
\* files on disk are the ones the remover looked the classes up in.
Transformed(f) ==
    IF f \in Range(jsFiles) THEN removeConsoleLogs(orig[f])
    ELSE removeUnusedCssClasses(disk, mode, orig[f], jsFiles, NoReads).content

Differs(f) == Readable(f) /\ Transformed(f) # orig[f]

\* writeFileSync was called on f and did not throw.
WriteSucceeded(f) == writes[f] > 0 /\ mode[f] # "nowrite"

\* C7 (as stated): when run returns, filesProcessed is the number of discovered
\* files whose transformed content differs from the content read from them.
C7_CountsEveryChangedFile ==
    pc = "done" => stats.filesProcessed = Cardinality({f \in Discovered : Differs(f)})

\* C7 (amended): when run returns, filesProcessed is the number of discovered
\* files whose transformed content differs from the content read from them and
\* whose write-back succeeded; a file whose transform is the identity, or whose
\* write-back failed, adds nothing to it.
C7_CountsEveryWrittenFile ==
    pc = "done" =>
        /\ stats.filesProcessed =
               Cardinality({f \in Discovered : Differs(f) /\ WriteSucceeded(f)})
        /\ \A f \in Discovered :
               contrib[f].filesProcessed = IF Differs(f) /\ WriteSucceeded(f) THEN 1 ELSE 0

\* A run that returned after it changed one file, failed to write another one
\* that its transform changes, and left a third one as it was.
C7_Witness ==
    /\ pc = "done"
    /\ stats.filesProcessed >= 1
    /\ \E f \in Discovered : Differs(f) /\ ~WriteSucceeded(f) /\ writes[f] = 1
    /\ \E f \in Discovered : Readable(f) /\ ~Differs(f) /\ reads[f] >= 1

ClassesBefore(f) == Cardinality(extractCssClasses(orig[f]))
ClassesAfter(f) == Cardinality(extractCssClasses(Transformed(f)))

\* The sum of (classes before - classes after) over the stylesheets of fs that
\* are in counted.
RECURSIVE SumRemoved(_, _, _)
SumRemoved(fs, i, counted) ==
    IF i > Len(fs) THEN 0
    ELSE (IF fs[i] \in counted THEN ClassesBefore(fs[i]) - ClassesAfter(fs[i]) ELSE 0)
         + SumRemoved(fs, i + 1, counted)

\* C8 (as stated): the remover's output has no more class names than its input,
\* and cssClassesRemoved is the sum over the stylesheets of the difference.
C8_SumOverStylesheets ==
    pc = "done" =>
        /\ \A f \in Range(cssFiles) : Readable(f) => ClassesAfter(f) <= ClassesBefore(f)
        /\ stats.cssClassesRemoved = SumRemoved(cssFiles, 1, {f \in Paths : Readable(f)})

\* C8 (amended): the remover's output has no more class names than its input,
\* and cssClassesRemoved is the sum of the difference over the stylesheets whose
\* cleaned content was written back.
C8_SumOverWrittenStylesheets ==
    pc = "done" =>
        /\ \A f \in Range(cssFiles) : Readable(f) => ClassesAfter(f) <= ClassesBefore(f)
        /\ stats.cssClassesRemoved = SumRemoved(cssFiles, 1, {f \in Paths : WriteSucceeded(f)})
        /\ \A f \in Range(cssFiles) :
               contrib[f].cssClassesRemoved =
                   IF WriteSucceeded(f) THEN ClassesBefore(f) - ClassesAfter(f) ELSE 0

\* A run that returned after it removed a class from one stylesheet and failed
\* to write another one that lost a class in the remover.
C8_Witness ==
    /\ pc = "done"
    /\ stats.cssClassesRemoved >= 1
    /\ \E f \in Range(cssFiles) :
          Readable(f) /\ ~WriteSucceeded(f) /\ ClassesAfter(f) < ClassesBefore(f)

\* The two loops of run from the files as they were when run was called, under
\* the file modes md: the disk at the end and what each file added.
RECURSIVE LoopsFrom(_, _, _, _)
LoopsFrom(r, md, i, j) ==
    IF i <= Len(jsFiles)
    THEN LET w == ProcessJsFile(r.w, md, jsFiles[i])
         IN  LoopsFrom([w |-> w,
                        contrib |-> [r.contrib EXCEPT ![jsFiles[i]] =
                                        Added(r.w.stats, w.stats)]], md, i + 1, j)
    ELSE IF j <= Len(cssFiles)
    THEN LET w == ProcessCssFile(r.w, md, jsFiles, cssFiles[j])
         IN  LoopsFrom([w |-> w,
                        contrib |-> [r.contrib EXCEPT ![cssFiles[j]] =
                                        Added(r.w.stats, w.stats)]], md, i, j + 1)
    ELSE r

\* The run in which reading and writing f does not fail, everything else alike.
RunWithout(f) ==
    LoopsFrom([w |-> [disk |-> orig, reads |-> NoReads, writes |-> NoReads,
                      stats |-> NoStats],
               contrib |-> [p \in Paths |-> NoContrib]],
              [mode EXCEPT ![f] = "ok"], 1, 1)

\* Reading f failed, or writing it did.
Failed(f) == reads[f] > 0 /\ (mode[f] = "noread" \/ (mode[f] = "nowrite" /\ writes[f] > 0))

ErrorsFor(f) == {k \in 1..Len(stats.errors) : stats.errors[k].path = f}

\* C9: when reading or writing one file fails, one error record is appended for
\* it, its content on disk stays, no counter changes for it, and every other
\* file ends with the content and the counts of the run without that failure.
C9_FailureIsolated ==
    pc = "done" =>
        \A f \in Discovered :
            Failed(f) =>
                /\ Cardinality(ErrorsFor(f)) = 1
                /\ disk[f] = orig[f]
                /\ contrib[f] = NoContrib
                /\ \A g \in Discovered \ {f} :
                       /\ disk[g] = RunWithout(f).w.disk[g]
                       /\ contrib[g] = RunWithout(f).contrib[g]

\* C10: when the project root fails validation, run returns one error record,
\* no warning and zero counters, and no file is discovered, read or written.
C10_InvalidRootAborts ==
    (pc = "done" /\ projectRoot # "dir") =>
        /\ Len(stats.errors) = 1
        /\ stats.errors[1].code \in {"INVALID_PROJECT_ROOT", "PERMISSION_DENIED"}
        /\ stats.warnings = <<>>
        /\ stats.consoleLogsRemoved = 0
        /\ stats.cssClassesRemoved = 0
        /\ stats.filesProcessed = 0
        /\ jsFiles = <<>>
        /\ cssFiles = <<>>
        /\ listed = <<>>
        /\ reads = NoReads
        /\ writes = NoReads
        /\ disk = orig

\* run has returned for a root that does not exist, over files it would change.
C10_Witness ==
    /\ pc = "done"
    /\ projectRoot = "enoent"
    /\ srcExists
    /\ Len(stats.errors) = 1
    /\ removeConsoleLogs(disk[JsA]) # disk[JsA]

\* C11: when the root is a directory with no src entry, run returns one warning
\* of code SRC_DIR_NOT_FOUND, no error and zero counters, and no file is read or
\* written.
C11_MissingSrcWarns ==
    (pc = "done" /\ projectRoot = "dir" /\ ~srcExists) =>
        /\ Len(stats.warnings) = 1
        /\ stats.warnings[1].code = "SRC_DIR_NOT_FOUND"
        /\ stats.errors = <<>>
        /\ stats.consoleLogsRemoved = 0
        /\ stats.cssClassesRemoved = 0
        /\ stats.filesProcessed = 0
        /\ listed = <<>>
        /\ reads = NoReads
        /\ writes = NoReads
        /\ disk = orig

\* run has returned for a root that has no src entry.
C11_Witness ==
    /\ pc = "done"
    /\ projectRoot = "dir"
    /\ ~srcExists
    /\ Len(stats.warnings) = 1

\* The three ways the root can fail that the codes are to tell apart: not found,
\* not a directory, permission denied.
RootFailureKinds == {"enoent", "file", "eacces"}

\* C12: root validation reports pairwise distinct codes for not found, not a
\* directory and permission denied: the code recorded for one of them is not the
\* code reported for either of the other two.
C12_DistinctRootCodes ==
    (pc = "done" /\ projectRoot \in RootFailureKinds) =>
        /\ Len(stats.errors) = 1
        /\ \A other \in RootFailureKinds \ {projectRoot} :
               validateProjectRoot(other).code # stats.errors[1].code

\* f is in the engine's own directory or below it.
UnderPackageSrc(f) == \E k \in 1..Len(f) : SubSeq(f, 1, k) = PACKAGE_SRC

\* f is below a directory named in the ignore list.
BelowIgnoredDir(f) == \E k \in 1..(Len(f) - 1) : f[k] \in IGNORE_DIRS

\* C13: every file run writes lies under src, has one of the extensions, is not
\* below an ignored directory and is not under the engine's own directory; no
\* file is created or deleted, and a file never written keeps its content.
C13_WritesOnlyDiscovered ==
    /\ DOMAIN disk = DOMAIN orig
    /\ \A f \in Paths :
          /\ writes[f] = 0 => disk[f] = orig[f]
          /\ writes[f] > 0 =>
                /\ f \in Discovered
                /\ f[1] = "src"
                /\ ToLowerCase(ExtName(f[Len(f)])) \in JS_EXTENSIONS \cup CSS_EXTENSIONS
                /\ ~BelowIgnoredDir(f)
                /\ ~UnderPackageSrc(f)

\* run has returned after it wrote a file, with the engine's own source in the
\* tree and a file below node_modules, both holding a call it would remove.
C13_Witness ==
    /\ pc = "done"
    /\ PACKAGE_SRC = LibDir
    /\ writes[JsA] = 1
    /\ removeConsoleLogs(disk[JsB]) # disk[JsB]
    /\ removeConsoleLogs(disk[IgnoredJs]) # disk[IgnoredJs]
    /\ removeConsoleLogs(disk[Notes]) # disk[Notes]

\* C14: run writes a file only if the transformed content differs from the
\* content it read from it; a file whose transform is the identity is never
\* written.
C14_WritesOnlyChanged ==
    \A f \in Paths :
        writes[f] > 0 =>
            /\ writes[f] = 1
            /\ f \in Discovered
            /\ Transformed(f) # orig[f]

\* run has returned after it read a source file and a stylesheet that their
\* transforms leave alone, and wrote another file.
C14_Witness ==
    /\ pc = "done"
    /\ \E f \in Range(jsFiles) :
          reads[f] > 0 /\ Readable(f) /\ Transformed(f) = orig[f] /\ writes[f] = 0
    /\ \E f \in Range(cssFiles) :
          reads[f] > 0 /\ Readable(f) /\ Transformed(f) = orig[f] /\ writes[f] = 0
    /\ \E f \in Discovered : writes[f] = 1

\* The statistics object: the three counters and the two lists.
IsStatistics(s) ==
    /\ DOMAIN s = {"consoleLogsRemoved", "cssClassesRemoved", "filesProcessed",
                   "errors", "warnings"}
    /\ s.consoleLogsRemoved \in Nat
    /\ s.cssClassesRemoved \in Nat
    /\ s.filesProcessed \in Nat
    /\ DOMAIN s.errors = 1..Len(s.errors)
    /\ DOMAIN s.warnings = 1..Len(s.warnings)

\* C15: run never throws: whatever its argument and the file system are, no
\* statement of it lets an error escape, and what it holds, and returns, is the
\* statistics object with the three counters and the two lists.
C15_NeverThrows ==
    /\ pc \in {"validate", "checkSrc", "discover", "js", "css", "return", "done"}
    /\ pc = "js" => fileIdx \in 1..(Len(jsFiles) + 1)
    /\ pc = "css" => fileIdx \in 1..(Len(cssFiles) + 1)
    /\ IsStatistics(stats)

\* run has returned over a directory that cannot be listed, a file that cannot
\* be read and a file that cannot be written.
C15_Witness ==
    /\ pc = "done"
    /\ noAccess = {LibDir}
    /\ mode[JsA] = "noread"
    /\ mode[CssB] = "nowrite"
    /\ writes[CssB] = 1
    /\ Len(stats.errors) = 2
    /\ Len(stats.warnings) = 2

----------------------------------------------------------------------------
(* incrementVersion (index.js). A version is the sequence of its characters. *)

DigitChars == <<"0", "1", "2", "3", "4", "5", "6", "7", "8", "9">>

IsDigit(c) == \E k \in 1..Len(DigitChars) : DigitChars[k] = c

DigitValue(c) == (CHOOSE k \in 1..Len(DigitChars) : DigitChars[k] = c) - 1

\* s.split(sep)
RECURSIVE Split(_, _)
Split(s, sep) ==
    LET at == {i \in 1..Len(s) : s[i] = sep}
    IN  IF at = {} THEN <<s>>
        ELSE LET i == CHOOSE k \in at : \A m \in at : k <= m
             IN  <<Slice(s, 1, i - 1)>> \o Split(From(s, i + 1), sep)

\* What parseInt returns for a text that does not start with a digit.
NaN == -1

\* The number the digits s[i..] spell after the number n spelled so far.
RECURSIVE ParseDigits(_, _, _)
ParseDigits(s, i, n) ==
    IF i <= Len(s) /\ IsDigit(s[i])
    THEN ParseDigits(s, i + 1, 10 * n + DigitValue(s[i]))
    ELSE n

\* parseInt(s, 10) of a text without sign or leading blanks: the number its
\* leading digits spell, NaN when it has none.
ParseInt(s) == IF s # <<>> /\ IsDigit(s[1]) THEN ParseDigits(s, 1, 0) ELSE NaN

\* v || d on numbers: NaN and 0 are falsy.
OrDefault(v, d) == IF v = NaN \/ v = 0 THEN d ELSE v

\* String(n) of a natural number: its decimal digits.
RECURSIVE NumberToString(_)
NumberToString(n) ==
    IF n < 10 THEN <<DigitChars[n + 1]>>
    ELSE NumberToString(n \div 10) \o <<DigitChars[(n % 10) + 1]>>

incrementVersion(version) ==
    LET parts == Split(version, ".")
        major == OrDefault(ParseInt(parts[1]), 1)
        minor == OrDefault(IF Len(parts) >= 2 THEN ParseInt(parts[2]) ELSE NaN, 0)
    IN  IF minor + 1 >= 10
        THEN NumberToString(major + 1) \o <<".">> \o NumberToString(0)
        ELSE NumberToString(major) \o <<".">> \o NumberToString(minor + 1)

\* The versions handed to incrementVersion: MAJOR.MINOR for MAJOR up to MaxMajor
\* and MINOR a digit.
MaxMajor == 12

VersionString(major, minor) == NumberToString(major) \o <<".">> \o NumberToString(minor)

VersionInputs == { VersionString(major, minor) : major \in 0..MaxMajor, minor \in 0..9 }

InitVersion ==
    /\ StripIdle
    /\ FsIdle
    /\ CssIdle
    /\ RunIdle
    /\ RelIdle
    /\ verIn \in VersionInputs
    /\ verOut = <<>>

\* const newVersion = incrementVersion(currentVersion)
IncrementStep ==
    /\ verOut = <<>>
    /\ verOut' = incrementVersion(verIn)
    /\ UNCHANGED <<verIn, stripVars, fsVars, cssVars, runVars, relVars>>

NextVersion == IncrementStep

SpecVersion == InitVersion /\ [][NextVersion]_vars

----------------------------------------------------------------------------
(* parseArgs and readTurlConfig (index.js). A command-line argument and a branch
   name are sequences of pieces, "=" being a piece of its own. *)

\* options.branch when it is null, undefined or the empty string: the three are
\* falsy and main only uses the value under ||.
NoBranch == <<>>

IsBranchFlag(arg) == arg = <<"--branch">> \/ arg = <<"-b">>

\* arg.startsWith("--branch=")
IsBranchAssignment(arg) == Len(arg) >= 2 /\ arg[1] = "--branch" /\ arg[2] = "="

IsHelpFlag(arg) == arg = <<"--help">> \/ arg = <<"-h">>

\* The for loop of parseArgs from position i on: the options, and whether
\* process.exit(0) was called for --help.
RECURSIVE ParseArgsFrom(_, _, _)
ParseArgsFrom(argv, i, options) ==
    IF i > Len(argv) THEN [options |-> options, help |-> FALSE]
    ELSE IF IsBranchFlag(argv[i])
    THEN ParseArgsFrom(argv, i + 2,
                       [branch |-> IF i + 1 <= Len(argv) THEN argv[i + 1] ELSE NoBranch])
    ELSE IF IsBranchAssignment(argv[i])
    THEN ParseArgsFrom(argv, i + 1, [branch |-> Split(argv[i], "=")[2]])
    ELSE IF IsHelpFlag(argv[i]) THEN [options |-> options, help |-> TRUE]
    ELSE ParseArgsFrom(argv, i + 1, options)

parseArgs(argv) == ParseArgsFrom(argv, 1, [branch |-> NoBranch])

\* a || b on texts
OrElse(a, b) == IF a = <<>> THEN b ELSE a

\* public/turl.json: whether it exists, and its three fields (empty when the
\* file does not have them).
NoTurlJson == [exists |-> FALSE, version |-> <<>>, projectName |-> <<>>, branch |-> <<>>]

defaultConfig ==
    [version |-> <<"1", ".", "0">>, projectName |-> <<"proj">>, branch |-> <<"main">>]

TurlJsonOf(config) ==
    [exists |-> TRUE, version |-> config.version, projectName |-> config.projectName,
     branch |-> config.branch]

\* readTurlConfig on the file: the configuration, and the file after it (a
\* missing file is created with the defaults).
readTurlConfig(file) ==
    IF ~file.exists
    THEN [config |-> defaultConfig, file |-> TurlJsonOf(defaultConfig)]
    ELSE [config |-> [version |-> OrElse(file.version, defaultConfig.version),
                      projectName |-> OrElse(file.projectName, defaultConfig.projectName),
                      branch |-> OrElse(file.branch, defaultConfig.branch)],
          file |-> file]

----------------------------------------------------------------------------
(* main (index.js), one step per numbered stage. What a stage does outside the
   process (a command, a call of the AI API, a file written) is appended to
   effects with its outcome. *)

\* The longest command line, in arguments.
MaxArgs == 2

ArgSet ==
    { <<"--branch">>, <<"-b">>, <<"--help">>, <<"dev">>,
      <<"--branch", "=", "qa">>, <<"--branch", "=">>,
      <<"--branch", "=", "rel", "=", "x">>, <<"rel", "=", "x">> }

TurlFiles ==
    { NoTurlJson,
      [exists |-> TRUE, version |-> <<"1", ".", "2">>, projectName |-> <<"app">>,
       branch |-> <<"stage">>],
      [exists |-> TRUE, version |-> <<"1", ".", "9">>, projectName |-> <<>>,
       branch |-> <<>>] }

InitRelease ==
    /\ StripIdle
    /\ FsIdle
    /\ CssIdle
    /\ RunIdle
    /\ VerIdle
    /\ args \in BoundedSeq(ArgSet, MaxArgs)
    /\ cliOptions = [branch |-> NoBranch]
    /\ turlJson \in TurlFiles
    /\ turlConfig = NoConfig
    /\ newVersion = <<>>
    /\ tree \in [dirty : BOOLEAN, diff : BOOLEAN]
    /\ rpc = "parseArgs"
    /\ exitCode = "none"
    /\ effects = <<>>
    /\ turlOrig = turlJson

Effect(op, ok, arg) == [op |-> op, ok |-> ok, arg |-> arg]

\* The stage at from is over and main goes on to the stage to.
GoOn(from, to, done) ==
    /\ rpc = from
    /\ rpc' = to
    /\ effects' = effects \o done
    /\ exitCode' = exitCode
    /\ UNCHANGED <<stripVars, fsVars, cssVars, runVars, verVars>>

\* process.exit(code) in the stage at from.
Exit(from, code, done) ==
    /\ rpc = from
    /\ rpc' = "exited"
    /\ effects' = effects \o done
    /\ exitCode' = code
    /\ UNCHANGED <<stripVars, fsVars, cssVars, runVars, verVars>>

\* const cliOptions = parseArgs()
RelParseArgs ==
    /\ \E parsed \in {parseArgs(args)} :
          IF parsed.help
          THEN /\ Exit("parseArgs", 0, <<>>)
               /\ cliOptions' = cliOptions
          ELSE /\ GoOn("parseArgs", "gitInstalled", <<>>)
               /\ cliOptions' = parsed.options
    /\ UNCHANGED <<args, turlJson, turlConfig, newVersion, tree, turlOrig>>

\* try { checkGitInstalled() } catch { printError; process.exit(1) }
RelGitInstalled ==
    /\ \E ok \in BOOLEAN :
          IF ok THEN GoOn("gitInstalled", "gitRepository", <<>>)
          ELSE Exit("gitInstalled", 1, <<>>)
    /\ UNCHANGED <<args, cliOptions, turlJson, turlConfig, newVersion, tree, turlOrig>>

\* try { checkGitRepository() } catch { printError; process.exit(1) }
RelGitRepository ==
    /\ \E ok \in BOOLEAN :
          IF ok THEN GoOn("gitRepository", "gitRemote", <<>>)
          ELSE Exit("gitRepository", 1, <<>>)
    /\ UNCHANGED <<args, cliOptions, turlJson, turlConfig, newVersion, tree, turlOrig>>

\* try { checkGitRemote() } catch { printError; process.exit(1) }
RelGitRemote ==
    /\ \E ok \in BOOLEAN :
          IF ok THEN GoOn("gitRemote", "apiKey", <<>>)
          ELSE Exit("gitRemote", 1, <<>>)
    /\ UNCHANGED <<args, cliOptions, turlJson, turlConfig, newVersion, tree, turlOrig>>

\* loadEnv(); try { validateApiKey(getApiKey()) } catch { printError; process.exit(1) }
RelApiKey ==
    /\ \E ok \in BOOLEAN :
          IF ok THEN GoOn("apiKey", "readConfig", <<>>)
          ELSE Exit("apiKey", 1, <<>>)
    /\ UNCHANGED <<args, cliOptions, turlJson, turlConfig, newVersion, tree, turlOrig>>

\* try { turlConfig = readTurlConfig() } catch { printError; process.exit(1) }:
\* reading, parsing or creating the file can fail.
RelReadConfig ==
    /\ \E ok \in BOOLEAN, r \in {readTurlConfig(turlJson)} :
          IF ok
          THEN /\ GoOn("readConfig", "increment",
                       IF turlJson.exists THEN <<>>
                       ELSE <<Effect("write turl.json", TRUE, r.config.version)>>)
               /\ turlConfig' = r.config
               /\ turlJson' = r.file
          ELSE /\ Exit("readConfig", 1, <<>>)
               /\ UNCHANGED <<turlConfig, turlJson>>
    /\ UNCHANGED <<args, cliOptions, newVersion, tree, turlOrig>>

\* const newVersion = incrementVersion(currentVersion)
RelIncrement ==
    /\ GoOn("increment", "cleanup", <<>>)
    /\ newVersion' = incrementVersion(turlConfig.version)
    /\ UNCHANGED <<args, cliOptions, turlJson, turlConfig, tree, turlOrig>>

\* try { await runCleanup(PROJECT_ROOT) } catch { warn }
RelCleanup ==
    /\ \E ok \in BOOLEAN : GoOn("cleanup", "format", <<Effect("cleanup", ok, <<>>)>>)
    /\ UNCHANGED <<args, cliOptions, turlJson, turlConfig, newVersion, tree, turlOrig>>

\* The formatter: none detected, or run; a failure is a warning.
RelFormat ==
    /\ \/ GoOn("format", "check", <<>>)
       \/ \E ok \in BOOLEAN : GoOn("format", "check", <<Effect("format", ok, <<>>)>>)
    /\ UNCHANGED <<args, cliOptions, turlJson, turlConfig, newVersion, tree, turlOrig>>

\* if (!hasChanges() && !diff.trim()) process.exit(0), letting a tree with
\* nothing to release through.
RelCheckChanges_NoExit ==
    /\ GoOn("check", "writeConfig", <<>>)
    /\ UNCHANGED <<args, cliOptions, turlJson, turlConfig, newVersion, tree, turlOrig>>

\* if (!hasChanges() && !diff.trim()) { ...; process.exit(0) }
RelCheckChanges ==
    /\ IF ~tree.dirty /\ ~tree.diff
       THEN Exit("check", 0, <<>>)
       ELSE GoOn("check", "writeConfig", <<>>)
    /\ UNCHANGED <<args, cliOptions, turlJson, turlConfig, newVersion, tree, turlOrig>>

\* try { writeTurlConfig({version: newVersion, projectName, branch: turlConfig.branch}) }
\* catch { printError; process.exit(1) }
RelWriteConfig ==
    /\ \E ok \in BOOLEAN :
          IF ok
          THEN /\ GoOn("writeConfig", "changelog",
                       <<Effect("write turl.json", TRUE, newVersion)>>)
               /\ turlJson' = TurlJsonOf([version |-> newVersion,
                                          projectName |-> turlConfig.projectName,
                                          branch |-> turlConfig.branch])
          ELSE /\ Exit("writeConfig", 1, <<Effect("write turl.json", FALSE, newVersion)>>)
               /\ turlJson' = turlJson
    /\ UNCHANGED <<args, cliOptions, turlConfig, newVersion, tree, turlOrig>>

\* try { changelogEntry = await generateChangelog(...) } catch { printError; exit(1) }:
\* no call without a diff; the call can fail, and its answer can lack the heading.
RelChangelog ==
    /\ IF ~tree.diff
       THEN Exit("changelog", 1, <<>>)
       ELSE \E answer \in {"failed", "invalid", "valid"} :
               IF answer = "valid"
               THEN GoOn("changelog", "updateChangelog",
                         <<Effect("ai changelog", TRUE, <<>>)>>)
               ELSE Exit("changelog", 1, <<Effect("ai changelog", FALSE, <<>>)>>)
    /\ UNCHANGED <<args, cliOptions, turlJson, turlConfig, newVersion, tree, turlOrig>>

\* try { updateChangelog(changelogEntry) } catch { printError; process.exit(1) }
RelUpdateChangelog ==
    /\ \E ok \in BOOLEAN :
          IF ok THEN GoOn("updateChangelog", "build",
                          <<Effect("write CHANGELOG.md", TRUE, <<>>)>>)
          ELSE Exit("updateChangelog", 1, <<Effect("write CHANGELOG.md", FALSE, <<>>)>>)
    /\ UNCHANGED <<args, cliOptions, turlJson, turlConfig, newVersion, tree, turlOrig>>

\* The build: none detected, or run; a failure is a warning.
RelBuild ==
    /\ \/ GoOn("build", "stage", <<>>)
       \/ \E ok \in BOOLEAN : GoOn("build", "stage", <<Effect("build", ok, <<>>)>>)
    /\ UNCHANGED <<args, cliOptions, turlJson, turlConfig, newVersion, tree, turlOrig>>

\* try { execCommand("git add -A") } catch { ...; process.exit(1) }
RelStage ==
    /\ \E ok \in BOOLEAN :
          IF ok THEN GoOn("stage", "commitMessage", <<Effect("git add", TRUE, <<>>)>>)
          ELSE Exit("stage", 1, <<Effect("git add", FALSE, <<>>)>>)
    /\ UNCHANGED <<args, cliOptions, turlJson, turlConfig, newVersion, tree, turlOrig>>

\* What stands for the commit message main goes on with.
FromAnswer == <<"answer">>
PrefixedAnswer == <<"firstLine", "answer">>
Fallback == <<"fallback">>

\* The commit-message stage going on with a message of its own when the call
\* of the AI API fails.
RelCommitMessage_Fallback ==
    /\ \E answer \in {"nodiff", "failed", "empty", "invalid", "exact", "dashes"} :
          IF answer = "nodiff" THEN Exit("commitMessage", 1, <<>>)
          ELSE IF answer = "failed"
          THEN GoOn("commitMessage", "commit",
                    <<Effect("ai commit message", FALSE, Fallback)>>)
          ELSE IF answer \in {"empty", "invalid"}
          THEN Exit("commitMessage", 1, <<Effect("ai commit message", FALSE, <<>>)>>)
          ELSE GoOn("commitMessage", "commit",
                    <<Effect("ai commit message", TRUE,
                             IF answer = "exact" THEN FromAnswer ELSE PrefixedAnswer)>>)
    /\ UNCHANGED <<args, cliOptions, turlJson, turlConfig, newVersion, tree, turlOrig>>

\* try { commitMessage = await generateCommitMessage(...) } catch { printError; exit(1) }:
\* no call without a staged diff; the call can fail or answer nothing; an answer
\* that starts with the first line is the message, one that holds a dash is the
\* message after the first line, any other is an error.
RelCommitMessage ==
    /\ \E answer \in {"nodiff", "failed", "empty", "invalid", "exact", "dashes"} :
          IF answer = "nodiff" THEN Exit("commitMessage", 1, <<>>)
          ELSE IF answer \in {"failed", "empty", "invalid"}
          THEN Exit("commitMessage", 1, <<Effect("ai commit message", FALSE, <<>>)>>)
          ELSE GoOn("commitMessage", "commit",
                    <<Effect("ai commit message", TRUE,
                             IF answer = "exact" THEN FromAnswer ELSE PrefixedAnswer)>>)
    /\ UNCHANGED <<args, cliOptions, turlJson, turlConfig, newVersion, tree, turlOrig>>

\* The message handed to gitCommit: what the commit-message stage went on with.
CommitMessage == effects[Len(effects)].arg

\* try { gitCommit(commitMessage) } catch { printError; process.exit(1) }
RelCommit ==
    /\ \E ok \in BOOLEAN :
          IF ok THEN GoOn("commit", "push", <<Effect("git commit", TRUE, CommitMessage)>>)
          ELSE Exit("commit", 1, <<Effect("git commit", FALSE, CommitMessage)>>)
    /\ UNCHANGED <<args, cliOptions, turlJson, turlConfig, newVersion, tree, turlOrig>>

\* const branch = cliOptions.branch || turlConfig.branch
Branch == OrElse(cliOptions.branch, turlConfig.branch)

\* try { gitPush(branch) } catch { printError; process.exit(1) }
RelPush ==
    /\ \E ok \in BOOLEAN :
          IF ok THEN GoOn("push", "released", <<Effect("git push", TRUE, Branch)>>)
          ELSE Exit("push", 1, <<Effect("git push", FALSE, Branch)>>)
    /\ UNCHANGED <<args, cliOptions, turlJson, turlConfig, newVersion, tree, turlOrig>>

\* main returns and the process ends with code 0.
RelFinish ==
    /\ Exit("released", 0, <<>>)
    /\ UNCHANGED <<args, cliOptions, turlJson, turlConfig, newVersion, tree, turlOrig>>

NextRelease ==
    \/ RelParseArgs
    \/ RelGitInstalled
    \/ RelGitRepository
    \/ RelGitRemote
    \/ RelApiKey
    \/ RelReadConfig
    \/ RelIncrement
    \/ RelCleanup
    \/ RelFormat
    \/ RelCheckChanges
    \/ RelWriteConfig
    \/ RelChangelog
    \/ RelUpdateChangelog
    \/ RelBuild
    \/ RelStage
    \/ RelCommitMessage
    \/ RelCommit
    \/ RelPush
    \/ RelFinish

SpecRelease == InitRelease /\ [][NextRelease]_vars

----------------------------------------------------------------------------
(* Claims about the release pipeline *)

\* C17: for every version MAJOR.MINOR with MAJOR >= 0 and MINOR in 0..9,
\* incrementVersion returns MAJOR.(MINOR+1) when MINOR <= 8 and (MAJOR+1).0 when
\* MINOR is 9.
C17_NextMinorOrMajor ==
    verOut # <<>> =>
        \A major \in 0..(MaxMajor + 1), minor \in 0..9 :
            verIn = VersionString(major, minor) =>
                verOut = IF minor <= 8 THEN VersionString(major, minor + 1)
                         ELSE VersionString(major + 1, 0)

\* effects holds at position k the effect op with outcome ok.
Did(k, op, ok) == effects[k].op = op /\ effects[k].ok = ok

\* public/turl.json has been written with the new version.
NewVersionWritten ==
    /\ newVersion # <<>>
    /\ \E k \in 1..Len(effects) :
          Did(k, "write turl.json", TRUE) /\ effects[k].arg = newVersion

\* C16: if a step fails after public/turl.json has been written with the new
\* version, the version stored in it is the original version again when the
\* process exits.
C16_VersionRolledBack ==
    (rpc = "exited" /\ exitCode = 1 /\ NewVersionWritten) =>
        turlJson.version = turlConfig.version

\* The steps that must have succeeded, in this order, before a push.
BeforePush ==
    <<"ai changelog", "write CHANGELOG.md", "git add", "ai commit message", "git commit">>

\* The steps of ops succeeded in that order at positions of effects below k.
RECURSIVE DoneInOrder(_, _, _)
DoneInOrder(ops, from, k) ==
    IF ops = <<>> THEN TRUE
    ELSE \E j \in from..(k - 1) :
            Did(j, Head(ops), TRUE) /\ DoneInOrder(Tail(ops), j + 1, k)

\* C18: git push is executed only after changelog generation, the CHANGELOG.md
\* update, staging, commit-message generation and git commit have succeeded; a
\* failure of one of them is the last thing the run does and ends it with exit
\* code 1; a commit is only made with a message built from the AI's answer.
C18_PushOnlyAfterAll ==
    \A k \in 1..Len(effects) :
        /\ effects[k].op = "git push" => DoneInOrder(BeforePush, 1, k)
        /\ effects[k].op = "git commit" =>
              /\ k > 1
              /\ Did(k - 1, "ai commit message", TRUE)
              /\ effects[k].arg \in {FromAnswer, PrefixedAnswer}
        /\ (effects[k].op \in Range(BeforePush) /\ ~effects[k].ok) =>
              /\ k = Len(effects)
              /\ rpc = "exited"
              /\ exitCode = 1

\* A release that pushed has ended.
C18_Witness ==
    /\ rpc = "exited"
    /\ exitCode = 0
    /\ effects # <<>>
    /\ Did(Len(effects), "git push", TRUE)
    /\ \E k \in 1..Len(effects) : effects[k].op = "build" /\ ~effects[k].ok

\* The change check was reached (cleanup always leaves its effect, and neither
\* it nor the formatter ends the run) and there is nothing to release.
NothingToRelease ==
    /\ ~tree.dirty
    /\ ~tree.diff
    /\ \E k \in 1..Len(effects) : effects[k].op = "cleanup"
    /\ rpc \notin {"format", "check"}

RECURSIVE GivenBranchFrom(_, _, _)
GivenBranchFrom(argv, i, given) ==
    IF i > Len(argv) THEN given
    ELSE IF IsBranchFlag(argv[i])
    THEN GivenBranchFrom(argv, i + 2, IF i + 1 <= Len(argv) THEN argv[i + 1] ELSE <<>>)
    ELSE IF IsBranchAssignment(argv[i])
    THEN GivenBranchFrom(argv, i + 1, From(argv[i], 3))
    ELSE GivenBranchFrom(argv, i + 1, given)

GivenBranch == GivenBranchFrom(args, 1, <<>>)

\* The branch read from turl.json, main when the file or the field is missing.
FileBranch == IF turlOrig.branch = <<>> THEN <<"main">> ELSE turlOrig.branch

\* C20: the branch pushed to is the value of --branch / -b when given and
\* otherwise the branch read from turl.json (default main); the turl.json the
\* release rewrites keeps the branch read from the file.
C20_PushTarget ==
    /\ \A k \in 1..Len(effects) :
          effects[k].op = "git push" =>
              effects[k].arg = IF GivenBranch # <<>> THEN GivenBranch ELSE FileBranch
    /\ NewVersionWritten => turlJson.branch = FileBranch

----------------------------------------------------------------------------
(* Further claims about removeUnusedCssClasses *)

\* A selector line of one class with no brace: .name
BareSelector(line) ==
    LET d == SkipSpace(line, 1)
    IN  /\ IsClassAt(line, d)
        /\ SkipSpace(line, SkipWord(line, d + 1)) = Len(line) + 1

\* A line that holds an opening brace and nothing else.
BraceLine(line) ==
    LET b == SkipSpace(line, 1)
    IN  /\ b <= Len(line)
        /\ line[b] = "{"
        /\ SkipSpace(line, b + 1) = Len(line) + 1

\* C21 (as stated): when a selector line .name without a brace, read outside a
\* rule, is followed by a line holding the opening brace, the selector line, the
\* brace line and every line up to the closing brace are emitted, whatever the
\* verdict of the class.
C21_BraceOnNextLineKept ==
    \A i \in 1..Len(trace) :
        (/\ trace[i].outside
         /\ BareSelector(lines[i])
         /\ i + 1 <= Len(lines)
         /\ BraceLine(lines[i + 1]))
        => /\ trace[i].emitted
           /\ \A k \in (i + 1)..Min(BlockEnd(lines, i + 1), Len(trace)) : trace[k].emitted

----------------------------------------------------------------------------
(* Further claims about run *)

\* The directories on the way from src to the file f, src included.
DirsAbove(f) == { SubSeq(f, 1, k) : k \in 1..(Len(f) - 1) }

\* f is reachable from src: every directory above it can be listed, and none of
\* those below src is named in the ignore list.
Reachable(f) ==
    /\ f[1] = "src"
    /\ \A d \in DirsAbove(f) : d \notin noAccess
    /\ ~BelowIgnoredDir(f)

\* The files getAllFiles is to return for a set of extensions.
Expected(extensions) ==
    { f \in Paths : /\ ToLowerCase(ExtName(f[Len(f)])) \in extensions
                    /\ Reachable(f)
                    /\ ~UnderPackageSrc(f) }

\* The directories that are reached and whose listing fails.
FailedDirs == { d \in Dirs : /\ d \in noAccess
                             /\ \A k \in 1..(Len(d) - 1) : SubSeq(d, 1, k) \notin noAccess
                             /\ \A k \in 2..Len(d) : d[k] \notin IGNORE_DIRS }

NoDuplicates(s) == \A i, j \in 1..Len(s) : s[i] = s[j] => i = j

ScanErrorsFor(d) ==
    { k \in 1..Len(stats.warnings) :
          stats.warnings[k].code = "DIRECTORY_SCAN_ERROR" /\ stats.warnings[k].path = d }

\* C22 (as stated): once the two traversals of run are done, the source files
\* and the stylesheets found are exactly the files with an allowed extension
\* (in any letter case) reachable from src through listable directories not in
\* the ignore list and not under the engine's installation path, each once; each
\* directory whose listing fails has one error entry per traversal.
C22_ExactlyTheReachableFiles ==
    listed # <<>> =>
        /\ Range(jsFiles) = Expected(JS_EXTENSIONS)
        /\ Range(cssFiles) = Expected(CSS_EXTENSIONS)
        /\ NoDuplicates(jsFiles) /\ NoDuplicates(cssFiles)
        /\ \A d \in Dirs :
              Cardinality(ScanErrorsFor(d)) = IF d \in FailedDirs THEN 2 ELSE 0

----------------------------------------------------------------------------
(* Claims about isClassUsedInJsFiles *)

\* Line i was read outside a rule and matches the selector pattern: the usage
\* check was called for its class, and the line was pushed exactly when the
\* check returned true.
UsageChecked(i) == trace[i].outside /\ SelectorMatch(lines[i])

\* Some readable source file matches one of the usage patterns.
UsedInReadableFile(className) ==
    \E k \in 1..Len(jsFiles) :
        /\ mode[jsFiles[k]] # "noread"
        /\ MatchesUsagePattern(disk[jsFiles[k]], className)

\* C23: the usage check answers true exactly when a readable source file
\* matches a usage pattern: a file whose read fails counts as no match and does
\* not keep the files after it from being checked; the check adds nothing to
\* the errors or warnings of the run.
C23_UsedIffReadableFileMatches ==
    /\ \A i \in 1..Len(trace) :
          UsageChecked(i) =>
              (trace[i].emitted <=> UsedInReadableFile(SelectorClassName(lines[i])))
    /\ stats.errors = <<>>
    /\ stats.warnings = <<>>

\* C23 witness: the first source file cannot be read and its text would match
\* class a, the second matches class b; a was judged unused and b used.
C23_Witness ==
    /\ mode[jsFiles[1]] = "noread"
    /\ MatchesUsagePattern(disk[jsFiles[1]], <<"a">>)
    /\ reads[jsFiles[1]] > 0
    /\ \E i, j \in 1..Len(trace) :
          /\ UsageChecked(i) /\ SelectorClassName(lines[i]) = <<"a">> /\ ~trace[i].emitted
          /\ UsageChecked(j) /\ SelectorClassName(lines[j]) = <<"b">> /\ trace[j].emitted

\* C24 (as stated): within one pass over a stylesheet no source file is read
\* from disk more than once, the files whose read fails included.
C24_ReadAtMostOnce ==
    \A k \in 1..Len(jsFiles) : reads[jsFiles[k]] <= 1

\* out[i..] can be had from in[j..] by leaving lines out.
RECURSIVE SubsequenceFrom(_, _, _, _)
SubsequenceFrom(out, i, in, j) ==
    IF i > Len(out) THEN TRUE
    ELSE IF j > Len(in) THEN FALSE
    ELSE IF out[i] = in[j] THEN SubsequenceFrom(out, i + 1, in, j + 1)
    ELSE SubsequenceFrom(out, i, in, j + 1)

\* C25: the lines emitted so far are a subsequence of the lines read so far:
\* each is an input line unchanged, in the input's order, none added, edited or
\* emitted twice; the text returned is these lines joined by newlines.
C25_OutputIsSubsequence ==
    /\ lineNo >= 1 => SubsequenceFrom(result, 1, SubSeq(lines, 1, lineNo - 1), 1)
    /\ SubsequenceFrom(result, 1, lines, 1)
    /\ cssOut # <<"pending">> => cssOut = JoinLines(result)

\* C25 witness: the call has returned having dropped a line between two lines
\* it kept.
C25_Witness ==
    /\ cssOut # <<"pending">>
    /\ Len(trace) = 3
    /\ trace[1].emitted /\ ~trace[2].emitted /\ trace[3].emitted
    /\ result = <<lines[1], lines[3]>>

\* C26: at every line boundary, inside a rule the brace depth is at least 1,
\* and the skip flag is set only inside a rule.
C26_DepthAndSkipInsideRule ==
    /\ inRuleBlock => braceCount >= 1
    /\ skipCurrentRule => inRuleBlock

\* C26 witness: two lines into a skipped rule with a nested block, the depth
\* is 2 and the skip flag is set.
C26_Witness ==
    /\ inRuleBlock
    /\ skipCurrentRule
    /\ braceCount = 2
    /\ lineNo = 3

\* The pass as one function, on the source files of the state.
Pass(css) == removeUnusedCssClasses(disk, mode, css, jsFiles, NoReads).content

\* C27: with the source files fixed, a second pass over the output of the
\* first returns it unchanged; what the call returned is the output of the pass.
C27_Idempotent ==
    \A once \in {Pass(cssContent)} :
        /\ Pass(once) = once
        /\ cssOut # <<"pending">> => cssOut = once

\* C27 witness: the call has returned a text that is shorter than its input and
\* not empty.
C27_Witness ==
    /\ cssOut # <<"pending">>
    /\ cssOut # cssContent
    /\ cssOut # <<>>
    /\ Len(result) = 2

----------------------------------------------------------------------------
(* The order of the two loops of run *)

\* The text holds the opening line of a rule of class n.
HasRuleOf(text, n) ==
    \E k \in 1..Len(SplitLines(text)) :
        LET line == SplitLines(text)[k]
        IN  SelectorMatch(line) /\ SelectorClassName(line) = n /\ HasOpenBrace(line)

\* The source files found whose text, as it was when run was called, refers to
\* class n.
Referring(n) == { f \in Range(jsFiles) : MatchesUsagePattern(orig[f], n) }

\* Class n is referred to, and only inside console.log calls that the first
\* pass removes.
OnlyInRemovedLogs(n) ==
    /\ Referring(n) # {}
    /\ \A f \in Range(jsFiles) : ~MatchesUsagePattern(removeConsoleLogs(orig[f]), n)

\* C28: no stylesheet is read during the loop over the source files; once one
\* has been read, every source file that can be read and written holds its
\* stripped text on disk. A stylesheet that was processed and can be written
\* has lost the rule of a class referred to only inside removed console.log
\* calls when the files referring to it were written back, and has kept it when
\* the write-back of one of them failed.
C28_VerdictsAfterStripping ==
    /\ pc = "js" => \A c \in CssPaths : reads[c] = 0
    /\ \A c \in Range(cssFiles) :
          reads[c] > 0 =>
              /\ \A f \in Range(jsFiles) :
                    mode[f] = "ok" => disk[f] = removeConsoleLogs(orig[f])
              /\ mode[c] = "ok" =>
                    \A n \in extractCssClasses(orig[c]) :
                        (HasRuleOf(orig[c], n) /\ OnlyInRemovedLogs(n)) =>
                            /\ (\A f \in Referring(n) : mode[f] = "ok")
                                   => ~HasRuleOf(disk[c], n)
                            /\ (\E f \in Referring(n) : mode[f] = "nowrite")
                                   => HasRuleOf(disk[c], n)

\* C28 witness: a.js held console.log('a'); and was stripped and written back;
\* lib/b.css held the rule of class a and has lost it.
C28_Witness ==
    /\ pc = "done"
    /\ orig[JsA] = LogA
    /\ JsA \in Range(jsFiles)
    /\ mode[JsA] = "ok"
    /\ disk[JsA] # orig[JsA]
    /\ CssA \in Range(cssFiles)
    /\ mode[CssA] = "ok"
    /\ HasRuleOf(orig[CssA], <<"a">>)
    /\ ~HasRuleOf(disk[CssA], <<"a">>)

====
